---- MODULE Spec2Model ----
(***************************************************************************)
(* Model of the Monster Jobs Scraper (src/src/main.js).                    *)
(*                                                                         *)
(* The source file holds two drafts of the same actor:                     *)
(*   pipeline 1  (lines 1-1252): API interceptor, embedded data, JSON-LD,  *)
(*               Cheerio HTML, detail-page enrichment, pagination;         *)
(*   pipeline 2  (lines 1254-1705): __NEXT_DATA__, JSON-LD, DOM.           *)
(* A run executes one of them; the variable pipeline says which.           *)
(*                                                                         *)
(* Text is modelled in two ways: short atoms (titles, urls, names) are     *)
(* TLA+ strings with "" for an absent or empty value; markup (description  *)
(* fields) is a sequence of one-character strings so that tag stripping is *)
(* computed character by character.                                        *)
(***************************************************************************)
EXTENDS Integers, Sequences, FiniteSets, TLC

(***************************************************************************)
(* Bounds of the model.                                                    *)
(***************************************************************************)
MaxJobsInput == 2      \* input.maxJobs ranges over 0..MaxJobsInput
MaxPagesInput == 1     \* input.maxPages ranges over 0..MaxPagesInput
SitePages == 2         \* the site shows a next-page control on pages < SitePages
MaxResponses == 1      \* matching network responses observed per page visit
MaxEntries == 3        \* entries of a JSON-LD block given to the extractor alone
MaxMarkupLen == 4      \* characters of a markup string given to stripHtml alone

(***************************************************************************)
(* Program constants.                                                      *)
(***************************************************************************)
maxRetries == 3                 \* Cloudflare bypass rounds
maxRequestsPerCrawl1 == 20      \* first pipeline
maxConcurrency1 == 3            \* first pipeline
maxConcurrency2 == 1            \* second pipeline
defaultRequestsPerCrawl2 == 10  \* second pipeline, when maxPages = 0
enrichConcurrency == 10         \* enrichJobsWithFullDescriptions batch size
minDescriptionLen == 100        \* detail page: selector accepted above this
minResultLen == 50              \* detail page: result returned above this

(***************************************************************************)
(* JavaScript helpers.                                                     *)
(***************************************************************************)
\* a || b on atoms: the first truthy (non-empty) operand
Or(a, b) == IF a # "" THEN a ELSE b

\* a || b on markup
OrSeq(a, b) == IF a # <<>> THEN a ELSE b

Min(a, b) == IF a < b THEN a ELSE b
Max(a, b) == IF a > b THEN a ELSE b

\* arr.slice(0, n)
Slice(arr, n) == SubSeq(arr, 1, Min(n, Len(arr)))

\* arr.filter(Boolean).join(', ') on a sequence of atoms
RECURSIVE JoinComma(_)
JoinComma(parts) ==
    IF parts = <<>> THEN ""
    ELSE IF Head(parts) = "" THEN JoinComma(Tail(parts))
    ELSE LET rest == JoinComma(Tail(parts))
         IN IF rest = "" THEN Head(parts) ELSE Head(parts) \o ", " \o rest

\* n copies of the character c
Rep(c, n) == [i \in 1..n |-> c]

(***************************************************************************)
(* stripHtml: html.replace(/<[^>]*>/g,' ').replace(/\s+/g,' ').trim()      *)
(***************************************************************************)
Whitespace == {" ", "\t", "\n"}

\* index of the first occurrence of c at or after position from, 0 when
\* there is none
FirstIndex(s, c, from) ==
    IF \E i \in from..Len(s) : s[i] = c
    THEN CHOOSE i \in from..Len(s) : s[i] = c /\ \A k \in from..(i - 1) : s[k] # c
    ELSE 0

\* .replace(/<[^>]*>/g, by): the first "<" that has a later ">" opens a match
\* that ends at the first such ">"; the search resumes after it
RECURSIVE ReplaceTags(_, _)
ReplaceTags(s, by) ==
    LET lt == FirstIndex(s, "<", 1)
        gt == IF lt = 0 THEN 0 ELSE FirstIndex(s, ">", lt + 1)
    IN IF lt = 0 \/ gt = 0 THEN s
       ELSE SubSeq(s, 1, lt - 1) \o by \o ReplaceTags(SubSeq(s, gt + 1, Len(s)), by)

\* .replace(/\s+/g, ' '): of each run of whitespace the first character is
\* kept, as a space
CollapseWhitespace(s) ==
    LET marked == [i \in 1..Len(s) |->
                     [c |-> IF s[i] \in Whitespace THEN " " ELSE s[i],
                      drop |-> i > 1 /\ s[i] \in Whitespace /\ s[i - 1] \in Whitespace]]
        kept == SelectSeq(marked, LAMBDA m : ~m.drop)
    IN [i \in 1..Len(kept) |-> kept[i].c]

RECURSIVE TrimStart(_)
TrimStart(s) ==
    IF s # <<>> /\ Head(s) \in Whitespace THEN TrimStart(Tail(s)) ELSE s

RECURSIVE TrimEnd(_)
TrimEnd(s) ==
    IF s # <<>> /\ s[Len(s)] \in Whitespace
    THEN TrimEnd(SubSeq(s, 1, Len(s) - 1)) ELSE s

\* .trim()
Trim(s) == TrimEnd(TrimStart(s))

\* the function without the final .trim()
stripHtml_Untrimmed(html) ==
    IF html = <<>> THEN <<>>
    ELSE CollapseWhitespace(ReplaceTags(html, <<" ">>))

stripHtml(html) ==
    IF html = <<>> THEN <<>>
    ELSE Trim(CollapseWhitespace(ReplaceTags(html, <<" ">>)))

(***************************************************************************)
(* The canonical job record built by every extraction path.                *)
(***************************************************************************)
JobRecord(title, company, location, salary, jobType, postedDate, description, text, url) ==
    [title |-> title, company |-> company, location |-> location,
     salary |-> salary, jobType |-> jobType, postedDate |-> postedDate,
     descriptionHtml |-> description, descriptionText |-> text,
     url |-> url, scrapedAt |-> "now"]

(***************************************************************************)
(* JavaScript values read by the extractors.                               *)
(***************************************************************************)
\* an address object (or string) of a schema.org jobLocation
NoAddress ==
    [kind |-> "none", s |-> "", addressLocality |-> "", addressRegion |-> "",
     addressCountry |-> "", city |-> "", state |-> ""]

\* a location value: absent, a plain string, an object, or an array whose
\* first element is described by the same fields
NoLoc ==
    [kind |-> "none", s |-> "", city |-> "", state |-> "", country |-> "",
     address |-> NoAddress]
StrLoc(s) == [NoLoc EXCEPT !.kind = "str", !.s = s]
ObjLoc(city, state, country) ==
    [NoLoc EXCEPT !.kind = "obj", !.city = city, !.state = state, !.country = country]
AddrLoc(locality, region, country) ==
    [NoLoc EXCEPT !.kind = "obj",
        !.address = [NoAddress EXCEPT !.kind = "obj", !.addressLocality = locality,
                        !.addressRegion = region, !.addressCountry = country]]

LocTruthy(l) == l.kind \in {"obj", "arr"} \/ (l.kind = "str" /\ l.s # "")
OrLoc(a, b) == IF LocTruthy(a) THEN a ELSE b

\* a baseSalary value
NoSalary ==
    [present |-> FALSE, valueKind |-> "none", scalar |-> "", minValue |-> "",
     maxValue |-> "", currency |-> ""]
RangeSalary(lo, hi, cur) ==
    [NoSalary EXCEPT !.present = TRUE, !.valueKind = "object", !.minValue = lo,
        !.maxValue = hi, !.currency = cur]
ScalarSalary(v, cur) ==
    [NoSalary EXCEPT !.present = TRUE, !.valueKind = "scalar", !.scalar = v,
        !.currency = cur]

\* a number or string is falsy when absent, empty or zero
Falsy(x) == x \in {"", "0"}
OrNum(a, b) == IF Falsy(a) THEN b ELSE a

NoPosting == [present |-> FALSE]

\* a job-like object: every field the extractors read, absent fields empty
Obj ==
    [isNull |-> FALSE, type |-> "",
     title |-> "", jobTitle |-> "", name |-> "",
     company |-> "", companyName |-> "", hiringCompany |-> "",
     companyDisplayName |-> "", hiringOrganizationName |-> "",
     location |-> NoLoc, jobLocation |-> NoLoc, city |-> NoLoc,
     salary |-> "", compensation |-> "", estimatedSalary |-> "",
     baseSalary |-> NoSalary,
     jobType |-> "", employmentType |-> "", typeField |-> "",
     postedDate |-> "", datePosted |-> "", listedDate |-> "", postedAt |-> "",
     description |-> <<>>, jobDescription |-> <<>>, snippet |-> <<>>,
     jobUrl |-> "", url |-> "", applyUrl |-> "", jobViewUrl |-> "",
     detailUrl |-> "", jobId |-> "", mesco |-> "",
     jobPosting |-> NoPosting, normalizedJobPosting |-> NoPosting]

NullObj == [Obj EXCEPT !.isNull = TRUE]

\* a value that is absent, a non-array truthy value, or an array of objects
Absent == [kind |-> "absent", items |-> <<>>]
NonArray == [kind |-> "other", items |-> <<>>]
Arr(items) == [kind |-> "array", items |-> items]

\* if (a) x = a; else if (b) x = b; ...   (an empty array is truthy)
RECURSIVE FirstTruthy(_)
FirstTruthy(vals) ==
    IF vals = <<>> THEN Absent
    ELSE IF Head(vals).kind # "absent" THEN Head(vals)
    ELSE FirstTruthy(Tail(vals))

jobOpenings == "https://www.monster.com/job-openings/"
monsterOrigin == "https://www.monster.com"

(***************************************************************************)
(* Pipeline 1: record built from an intercepted or embedded API item.      *)
(***************************************************************************)
MapRawJob(job) ==
    LET jobUrl == Or(job.jobUrl, Or(job.url, Or(job.applyUrl,
                    Or(job.jobViewUrl, Or(job.detailUrl,
                        IF job.jobId # "" THEN jobOpenings \o job.jobId ELSE "")))))
        loc == OrLoc(job.location, OrLoc(job.jobLocation, OrLoc(job.city, NoLoc)))
        location == IF loc.kind \in {"obj", "arr"}
                    THEN JoinComma(<<loc.city, loc.state, loc.country>>)
                    ELSE loc.s
        description == OrSeq(job.description, OrSeq(job.jobDescription, job.snippet))
    IN JobRecord(
         Or(job.title, Or(job.jobTitle, job.name)),
         Or(job.company, Or(job.companyName, Or(job.hiringCompany, job.companyDisplayName))),
         location,
         Or(job.salary, Or(job.compensation, Or(job.estimatedSalary, "Not specified"))),
         Or(job.jobType, Or(job.employmentType, Or(job.typeField, "Not specified"))),
         Or(job.postedDate, Or(job.datePosted, Or(job.listedDate, job.postedAt))),
         description,
         stripHtml(description),
         jobUrl)

\* the result of a computation that may throw
Threw == [threw |-> TRUE, jobs |-> <<>>]
Returned(jobs) == [threw |-> FALSE, jobs |-> jobs]

\* capturedApiJobs.map(job => ...): reading a field of null throws
MapCapturedJobs(captured) ==
    IF \E i \in 1..Len(captured) : captured[i].isNull
    THEN Threw
    ELSE Returned([i \in 1..Len(captured) |-> MapRawJob(captured[i])])

(***************************************************************************)
(* Pipeline 1: parseJobPosting, the record built from a JSON-LD entry.     *)
(***************************************************************************)
parseJobPosting(jobData) ==
    LET jobLocation == jobData.jobLocation
        address == IF jobLocation.kind = "obj" THEN jobLocation.address ELSE NoAddress
        location == IF address.kind = "str" THEN address.s
                    ELSE JoinComma(<<address.addressLocality, address.addressRegion,
                                     address.addressCountry>>)
        baseSalary == jobData.baseSalary
        lo == OrNum(baseSalary.minValue, "")
        hi == OrNum(baseSalary.maxValue, "")
        \* `${lo} - ${hi} ${currency}`.trim()
        salary == IF baseSalary.present /\ baseSalary.valueKind = "object"
                  THEN (IF lo = "" THEN "-" ELSE lo \o " -")
                         \o (IF baseSalary.currency # ""
                             THEN " " \o hi \o " " \o baseSalary.currency
                             ELSE IF hi # "" THEN " " \o hi ELSE "")
                  ELSE IF baseSalary.present /\ baseSalary.valueKind = "scalar"
                          /\ ~Falsy(baseSalary.scalar)
                  THEN baseSalary.scalar
                         \o (IF baseSalary.currency # "" THEN " " \o baseSalary.currency ELSE "")
                  ELSE "Not specified"
    IN JobRecord(
         jobData.title,
         jobData.hiringOrganizationName,
         location,
         salary,
         Or(jobData.employmentType, "Not specified"),
         jobData.datePosted,
         jobData.description,
         IF jobData.description # <<>> THEN stripHtml(jobData.description) ELSE <<>>,
         jobData.url)

(***************************************************************************)
(* Pipeline 1: extractJobsViaJsonLD.                                       *)
(***************************************************************************)
\* a property holding a list: absent, or present with its elements
NoList == [present |-> FALSE, items |-> <<>>]
List(items) == [present |-> TRUE, items |-> items]

\* the parsed content of one <script type="application/ld+json">
LdData ==
    [parses |-> TRUE, isNull |-> FALSE, isArray |-> FALSE, items |-> <<>>,
     self |-> Obj, graph |-> NoList, itemListElement |-> NoList]
LdMalformed == [LdData EXCEPT !.parses = FALSE]
LdArray(items) == [LdData EXCEPT !.isArray = TRUE, !.items = items]
LdObject(o) == [LdData EXCEPT !.self = o]
LdGraph(items) == [LdData EXCEPT !.graph = List(items)]
LdItemList(items) ==
    [LdData EXCEPT !.self = [Obj EXCEPT !.type = "ItemList"],
                   !.itemListElement = List(items)]

\* an element of itemListElement: {item: e} or the entry e itself
Wrapped(e) == [wrapped |-> TRUE, e |-> e]
Bare(e) == [wrapped |-> FALSE, e |-> e]

\* for (const item of items) if (item['@type'] === 'JobPosting') jobs.push(...)
\* a null item throws; the enclosing catch keeps what was pushed before it
RECURSIVE PushPostings(_, _)
PushPostings(items, jobs) ==
    IF items = <<>> THEN jobs
    ELSE IF Head(items).isNull THEN jobs
    ELSE IF Head(items).type = "JobPosting"
         THEN PushPostings(Tail(items), Append(jobs, parseJobPosting(Head(items))))
         ELSE PushPostings(Tail(items), jobs)

\* const item = listItem.item || listItem
ListItems(elems) == [i \in 1..Len(elems) |-> elems[i].e]

\* the body of the loop over the scripts, for one script
JsonLDScript(data, jobs) ==
    IF ~data.parses \/ data.isNull THEN jobs
    ELSE IF data.isArray THEN PushPostings(data.items, jobs)
    ELSE IF data.self.type = "JobPosting" THEN Append(jobs, parseJobPosting(data.self))
    ELSE IF data.graph.present THEN PushPostings(data.graph.items, jobs)
    ELSE IF data.self.type = "ItemList" /\ data.itemListElement.present
         THEN PushPostings(ListItems(data.itemListElement.items), jobs)
    ELSE jobs

RECURSIVE JsonLDScripts(_, _)
JsonLDScripts(scripts, jobs) ==
    IF scripts = <<>> THEN jobs
    ELSE JsonLDScripts(Tail(scripts), JsonLDScript(Head(scripts), jobs))

\* evalFails: page.$$eval rejected (outer catch returns [])
extractJobsViaJsonLD(scripts, evalFails) ==
    IF evalFails THEN <<>> ELSE JsonLDScripts(scripts, <<>>)

(***************************************************************************)
(* Pipeline 1: extractJobsViaMonsterAPI (embedded hydration data).         *)
(***************************************************************************)
\* what page.evaluate finds: kind is "none", "nextjs", "redux", "appdata"
\* or "script"; paths holds the values under the seven key paths, in the
\* order the code tries them
EmbeddedPaths ==
    <<"props.pageProps.jobs", "props.pageProps.searchResults.docs",
      "props.pageProps.initialJobs", "jobResults", "searchResults.docs",
      "docs", "results">>
NoEmbedded ==
    [kind |-> "none", parses |-> TRUE, paths |-> [i \in 1..7 |-> Absent]]
Embedded(kind, i, val) ==
    [kind |-> kind, parses |-> TRUE, paths |-> [j \in 1..7 |-> IF j = i THEN val ELSE Absent]]
EmbeddedMalformed(kind) == [NoEmbedded EXCEPT !.kind = kind, !.parses = FALSE]

\* for (const job of jobArray) jobs.push({...}); a null job throws into the
\* inner catch, which keeps what was pushed before it
RECURSIVE PushEmbedded(_, _)
PushEmbedded(items, jobs) ==
    IF items = <<>> THEN jobs
    ELSE IF Head(items).isNull THEN jobs
    ELSE PushEmbedded(Tail(items), Append(jobs, MapRawJob(Head(items))))

extractJobsViaMonsterAPI(apiData, evalFails) ==
    IF evalFails \/ apiData.kind = "none" \/ ~apiData.parses THEN <<>>
    ELSE LET jobArray == FirstTruthy(apiData.paths)
         IN IF jobArray.kind = "array" /\ Len(jobArray.items) > 0
            THEN PushEmbedded(jobArray.items, <<>>)
            ELSE <<>>

(***************************************************************************)
(* Pipeline 1: extractJobDataViaHTML and extractJobFromElement.            *)
(***************************************************************************)
\* an href attribute: absent, absolute (starts with "http") or relative
NoHref == [kind |-> "none", v |-> ""]
AbsHref(v) == [kind |-> "abs", v |-> v]
RelHref(v) == [kind |-> "rel", v |-> v]

\* if (url && !url.startsWith('http')) url = `https://www.monster.com${url}`
AbsoluteUrl(href) == IF href.kind = "rel" THEN monsterOrigin \o href.v ELSE href.v

\* a job card: titleEls are the elements the title selectors match, in
\* selector order; the other fields are the trimmed texts their selectors
\* match, in selector order
Card ==
    [titleEls |-> <<>>, company |-> <<>>, location |-> <<>>, salary |-> <<>>,
     snippet |-> <<>>, postedDate |-> <<>>]
TitleEl(text, href) == [text |-> text, href |-> href]

\* the title loop: stop at the first element with text; an element without
\* text still overwrites url
RECURSIVE TitleLoop(_, _)
TitleLoop(els, url) ==
    IF els = <<>> THEN [title |-> "", url |-> url]
    ELSE IF Head(els).text # ""
         THEN [title |-> Head(els).text, url |-> AbsoluteUrl(Head(els).href)]
         ELSE TitleLoop(Tail(els), AbsoluteUrl(Head(els).href))

\* first match with text
RECURSIVE FirstText(_, _)
FirstText(texts, default) ==
    IF texts = <<>> THEN default
    ELSE IF Head(texts) # "" THEN Head(texts)
    ELSE FirstText(Tail(texts), default)

snippetMinLen == 20

\* first match whose text is longer than 20 characters
RECURSIVE FirstSnippet(_)
FirstSnippet(texts) ==
    IF texts = <<>> THEN <<>>
    ELSE IF Len(Head(texts)) > snippetMinLen THEN Head(texts)
    ELSE FirstSnippet(Tail(texts))

NoJob == [none |-> TRUE]

extractJobFromElement(el) ==
    LET t == TitleLoop(el.titleEls, "")
        snippet == FirstSnippet(el.snippet)
    IN IF t.title # "" \/ t.url # ""
       THEN JobRecord(Or(t.title, "Unknown Title"),
                      FirstText(el.company, ""),
                      FirstText(el.location, ""),
                      FirstText(el.salary, "Not specified"),
                      "Not specified",
                      FirstText(el.postedDate, ""),
                      snippet, snippet, t.url)
       ELSE NoJob

\* jobElements.each(... if (job) jobs.push(job))
RECURSIVE PushCards(_, _)
PushCards(cards, jobs) ==
    IF cards = <<>> THEN jobs
    ELSE LET job == extractJobFromElement(Head(cards))
         IN PushCards(Tail(cards), IF job = NoJob THEN jobs ELSE Append(jobs, job))

\* a job link of the last-resort pass
Link(text, href, company, location) ==
    [text |-> text, href |-> href, company |-> company, location |-> location]

linkTitleMinLen == 5

RECURSIVE PushLinks(_, _)
PushLinks(links, jobs) ==
    IF links = <<>> THEN jobs
    ELSE LET l == Head(links)
         IN PushLinks(Tail(links),
               IF l.text # "" /\ Len(l.text) > linkTitleMinLen
               THEN Append(jobs, JobRecord(l.text, l.company, l.location,
                                  "Not specified", "Not specified", "",
                                  <<>>, <<>>, AbsoluteUrl(l.href)))
               ELSE jobs)

\* the page markup: the cards matched by the first card selector that
\* matches anything, and the job links
NoDom == [cards |-> <<>>, links |-> <<>>]

\* contentFails: page.content() rejected (catch returns [])
extractJobDataViaHTML(dom, contentFails) ==
    IF contentFails THEN <<>>
    ELSE IF Len(dom.cards) = 0 THEN PushLinks(dom.links, <<>>)
    ELSE PushCards(dom.cards, <<>>)

(***************************************************************************)
(* Pipeline 2: normalizeMonsterJob.                                        *)
(***************************************************************************)
\* employmentType may be an array in pipeline 2; it is modelled as joined
normalizeMonsterJob(job) ==
    IF job.isNull THEN NoJob
    ELSE
    LET posting == IF job.jobPosting.present THEN job.jobPosting.v
                   ELSE IF job.normalizedJobPosting.present
                        THEN job.normalizedJobPosting.v
                        ELSE job
        title == Or(posting.title, Or(job.jobTitle, Or(job.title, job.name)))
        company == Or(posting.hiringOrganizationName, Or(posting.companyName,
                     Or(job.company, Or(job.companyName, Or(job.hiringCompany,
                        job.companyDisplayName)))))
        jobLocations == OrLoc(posting.jobLocation, job.jobLocation)
        addr == jobLocations.address
        location ==
            IF jobLocations.kind = "arr"
            THEN IF addr.kind = "obj"
                 THEN JoinComma(<<addr.addressLocality, addr.addressRegion,
                                  addr.addressCountry>>)
                 ELSE ""
            ELSE IF jobLocations.kind = "obj"
            THEN IF addr.kind = "obj"
                 THEN JoinComma(<<Or(addr.addressLocality, addr.city),
                                  Or(addr.addressRegion, addr.state)>>)
                 ELSE IF addr.kind = "str" /\ addr.s # "" THEN ""
                 ELSE JoinComma(<<jobLocations.city, jobLocations.state>>)
            ELSE IF job.location.kind = "str" /\ job.location.s # "" THEN job.location.s
            ELSE IF job.city.kind = "str" THEN job.city.s ELSE ""
        jobUrl == Or(job.detailUrl, Or(job.jobViewUrl, Or(posting.url,
                    Or(job.jobUrl, Or(job.url,
                      Or(IF job.mesco # "" THEN jobOpenings \o job.mesco ELSE "",
                         IF job.jobId # "" THEN jobOpenings \o job.jobId ELSE ""))))))
        baseSalary == IF posting.baseSalary.present THEN posting.baseSalary
                      ELSE job.baseSalary
        hasValue == baseSalary.present
                    /\ (baseSalary.valueKind = "object"
                        \/ (baseSalary.valueKind = "scalar" /\ ~Falsy(baseSalary.scalar)))
        lo == IF baseSalary.valueKind = "object" THEN OrNum(baseSalary.minValue, "") ELSE ""
        hi == IF baseSalary.valueKind = "object" THEN OrNum(baseSalary.maxValue, "") ELSE ""
        \* `${lo}${hi ? ` - ${hi}` : ''} ${currency}`.trim()
        salary == IF hasValue
                  THEN IF lo # "" \/ hi # ""
                       THEN (IF lo # "" THEN lo \o (IF hi # "" THEN " - " \o hi ELSE "")
                             ELSE "- " \o hi)
                            \o (IF baseSalary.currency # ""
                                THEN " " \o baseSalary.currency ELSE "")
                       ELSE "Not specified"
                  ELSE Or(job.salary, "Not specified")
        jobType == Or(posting.employmentType, Or(job.employmentType,
                     Or(job.jobType, "Not specified")))
        description == OrSeq(posting.description, OrSeq(job.description, job.snippet))
    IN IF title = "" THEN NoJob
       ELSE JobRecord(title, company, location, salary, jobType,
                      Or(posting.datePosted, Or(job.postedDate, job.datePosted)),
                      description, stripHtml(description), jobUrl)

\* arr.map(normalizeMonsterJob).filter(Boolean)
RECURSIVE NormalizeAll(_)
NormalizeAll(items) ==
    IF items = <<>> THEN <<>>
    ELSE LET job == normalizeMonsterJob(Head(items))
         IN (IF job = NoJob THEN <<>> ELSE <<job>>) \o NormalizeAll(Tail(items))

(***************************************************************************)
(* Pipeline 2: extractJobsFromNextData.                                    *)
(***************************************************************************)
\* the __NEXT_DATA__ script: present says whether the element exists, paths
\* holds pageProps.jobViewResultsData, .jobViewResultsDataCompact,
\* .jobResults, .jobs and .searchResults.docs, in the order of the || chain
NextDataPaths ==
    <<"jobViewResultsData", "jobViewResultsDataCompact", "jobResults", "jobs",
      "searchResults.docs">>
NoNextData ==
    [present |-> FALSE, parses |-> TRUE, paths |-> [i \in 1..5 |-> Absent]]
NextData(i, val) ==
    [present |-> TRUE, parses |-> TRUE, paths |-> [j \in 1..5 |-> IF j = i THEN val ELSE Absent]]
NextDataMalformed == [NoNextData EXCEPT !.present = TRUE, !.parses = FALSE]

extractJobsFromNextData(nextData, evalFails) ==
    IF evalFails \/ ~nextData.present \/ ~nextData.parses THEN <<>>
    ELSE LET jobArray == FirstTruthy(nextData.paths)
         IN IF jobArray.kind # "array" \/ Len(jobArray.items) = 0 THEN <<>>
            ELSE NormalizeAll(jobArray.items)

(***************************************************************************)
(* Pipeline 2: extractJobsFromJsonLD.                                      *)
(***************************************************************************)
\* for (const item of data['@graph']) ...; a null item throws into the catch
RECURSIVE PushNormalized(_, _)
PushNormalized(items, jobs) ==
    IF items = <<>> THEN jobs
    ELSE IF Head(items).isNull THEN jobs
    ELSE LET job == IF Head(items).type = "JobPosting"
                    THEN normalizeMonsterJob(Head(items)) ELSE NoJob
         IN PushNormalized(Tail(items), IF job = NoJob THEN jobs ELSE Append(jobs, job))

JsonLDScript2(data, jobs) ==
    IF ~data.parses \/ data.isNull THEN jobs
    ELSE IF ~data.isArray /\ data.self.type = "JobPosting"
         THEN LET job == normalizeMonsterJob(data.self)
              IN IF job = NoJob THEN jobs ELSE Append(jobs, job)
    ELSE IF ~data.isArray /\ data.graph.present
         THEN PushNormalized(data.graph.items, jobs)
    ELSE jobs

RECURSIVE JsonLDScripts2(_, _)
JsonLDScripts2(scripts, jobs) ==
    IF scripts = <<>> THEN jobs
    ELSE JsonLDScripts2(Tail(scripts), JsonLDScript2(Head(scripts), jobs))

extractJobsFromJsonLD(scripts, evalFails) ==
    IF evalFails THEN <<>> ELSE JsonLDScripts2(scripts, <<>>)

(***************************************************************************)
(* Pipeline 2: extractJobsFromDOM.                                         *)
(***************************************************************************)
\* a card of pipeline 2: the text and resolved href of the title element,
\* and the company and location texts
Card2(title, url, company, location) ==
    [title |-> title, url |-> url, company |-> company, location |-> location]

RECURSIVE PushCards2(_, _)
PushCards2(cards, jobs) ==
    IF cards = <<>> THEN jobs
    ELSE LET c == Head(cards)
         IN PushCards2(Tail(cards),
               IF c.title # "" /\ c.url # ""
               THEN Append(jobs, JobRecord(c.title, c.company, c.location,
                                  "Not specified", "Not specified", "",
                                  <<>>, <<>>, c.url))
               ELSE jobs)

extractJobsFromDOM(cards, evalFails) ==
    IF evalFails THEN <<>> ELSE PushCards2(cards, <<>>)

(***************************************************************************)
(* Pipeline 1: fetchFullDescription.                                       *)
(***************************************************************************)
\* the outcome of gotScraping on a detail page: error is "" when the request
\* resolved, else the message of the exception; descEls are the elements the
\* description selectors match, in selector order, as their inner markup
DetailResponse ==
    [error |-> "", statusCode |-> 200, title |-> "Job", descEls |-> <<>>,
     jobType |-> ""]

BlockTitles == {"Just a moment...", "Attention Required! | Cloudflare"}
BlockErrors == {"Response code 403 (Forbidden)", "Response code 503 (Service Unavailable)"}

\* cheerio .text(): the text nodes without the tags
ElementText(html) == ReplaceTags(html, <<>>)

\* the loop over descriptionSelectors
RECURSIVE FirstDescription(_)
FirstDescription(els) ==
    IF els = <<>> THEN [descriptionHtml |-> <<>>, descriptionText |-> <<>>]
    ELSE IF Len(Trim(ElementText(Head(els)))) > minDescriptionLen
         THEN [descriptionHtml |-> Trim(Head(els)),
               descriptionText |-> Trim(ElementText(Head(els)))]
         ELSE FirstDescription(Tail(els))

NullResult ==
    [kind |-> "null", descriptionHtml |-> <<>>, descriptionText |-> <<>>, jobType |-> ""]
BlockedResult == [NullResult EXCEPT !.kind = "blocked"]

fetchFullDescription(response) ==
    IF response.error # ""
    THEN IF response.error \in BlockErrors THEN BlockedResult ELSE NullResult
    ELSE IF response.statusCode \in {403, 503} THEN BlockedResult
    ELSE IF response.statusCode # 200 THEN NullResult
    ELSE IF response.title \in BlockTitles THEN BlockedResult
    ELSE LET d == FirstDescription(response.descEls)
         IN IF d.descriptionText # <<>> /\ Len(d.descriptionText) > minResultLen
            THEN [kind |-> "result", descriptionHtml |-> d.descriptionHtml,
                  descriptionText |-> d.descriptionText, jobType |-> response.jobType]
            ELSE NullResult

(***************************************************************************)
(* Pipeline 1: the per-job mapper of enrichJobsWithFullDescriptions.       *)
(***************************************************************************)
\* the mapper with a blocked fetch treated like an empty result page
EnrichedJob_BlockedClears(job, fullDesc) ==
    IF fullDesc.kind = "blocked"
    THEN [job EXCEPT !.descriptionHtml = <<>>, !.descriptionText = <<>>]
    ELSE IF fullDesc.kind = "result" /\ fullDesc.descriptionHtml # <<>>
    THEN [job EXCEPT !.descriptionHtml = fullDesc.descriptionHtml,
                     !.descriptionText = fullDesc.descriptionText,
                     !.jobType = Or(fullDesc.jobType, job.jobType)]
    ELSE job

\* the mapper with the job type taken from the detail page whatever it is
EnrichedJob_JobTypeOverwritten(job, fullDesc) ==
    IF fullDesc.kind = "blocked" THEN job
    ELSE IF fullDesc.kind = "result" /\ fullDesc.descriptionHtml # <<>>
    THEN [job EXCEPT !.descriptionHtml = fullDesc.descriptionHtml,
                     !.descriptionText = fullDesc.descriptionText,
                     !.jobType = fullDesc.jobType]
    ELSE job

EnrichedJob(job, fullDesc) ==
    IF fullDesc.kind = "blocked" THEN job
    ELSE IF fullDesc.kind = "result" /\ fullDesc.descriptionHtml # <<>>
    THEN [job EXCEPT !.descriptionHtml = fullDesc.descriptionHtml,
                     !.descriptionText = fullDesc.descriptionText,
                     !.jobType = Or(fullDesc.jobType, job.jobType)]
    ELSE job

BlockedIncrement(fullDesc) == IF fullDesc.kind = "blocked" THEN 1 ELSE 0

(***************************************************************************)
(* Pipeline 1: the response handler of setupAPIInterceptor.                *)
(***************************************************************************)
\* a network response: whether its url matches the endpoint patterns, its
\* content type is JSON, its body parses, and the values under the keys
ResponseBody ==
    [urlMatches |-> TRUE, isJson |-> TRUE, parses |-> TRUE, isNull |-> FALSE,
     jobResults |-> Absent, docs |-> Absent, results |-> Absent,
     dataJobs |-> Absent, isArray |-> FALSE, items |-> <<>>]

\* the part of the handler before await response.json()
AwaitsJson(response) == response.urlMatches /\ response.isJson

\* the part after it: the items pushed to capturedJobs
InterceptedJobs(data) ==
    IF ~data.parses \/ data.isNull THEN <<>>
    ELSE LET jobArray == FirstTruthy(<<data.jobResults, data.docs, data.results,
                                       data.dataJobs,
                                       IF data.isArray THEN Arr(data.items) ELSE Absent>>)
         IN IF jobArray.kind = "array" THEN jobArray.items ELSE <<>>

(***************************************************************************)
(* Deduplication and the record budget.                                    *)
(***************************************************************************)
\* pipeline 1: jobsToSave.filter(job => ...) with seenJobUrls
RECURSIVE UniqueJobs1(_, _)
UniqueJobs1(jobs, seen) ==
    IF jobs = <<>> THEN [jobs |-> <<>>, seen |-> seen]
    ELSE LET job == Head(jobs)
         IN IF job.url = ""
            THEN LET r == UniqueJobs1(Tail(jobs), seen)
                 IN [jobs |-> <<job>> \o r.jobs, seen |-> r.seen]
            ELSE IF job.url \in seen
            THEN UniqueJobs1(Tail(jobs), seen)
            ELSE LET r == UniqueJobs1(Tail(jobs), seen \cup {job.url})
                 IN [jobs |-> <<job>> \o r.jobs, seen |-> r.seen]

\* the budget slice without the records already counted
JobsToSave1_IgnoresTotal(jobs, maxJobs, total, seen) ==
    UniqueJobs1(IF maxJobs > 0 THEN Slice(jobs, maxJobs) ELSE jobs, seen)

\* pipeline 1: the budget slice followed by the duplicate filter
JobsToSave1(jobs, maxJobs, total, seen) ==
    UniqueJobs1(IF maxJobs > 0 THEN Slice(jobs, Max(0, maxJobs - total)) ELSE jobs,
                seen)

\* pipeline 2: const key = job.url || `${job.title}-${job.company}`
DedupKey2(job) == Or(job.url, job.title \o "-" \o job.company)

\* pipeline 2: the loop that filters duplicates and applies the limit
RECURSIVE JobsToSave2(_, _, _, _, _)
JobsToSave2(jobs, maxJobs, total, seen, kept) ==
    IF jobs = <<>> THEN [jobs |-> kept, seen |-> seen]
    ELSE IF maxJobs > 0 /\ total + Len(kept) >= maxJobs
    THEN [jobs |-> kept, seen |-> seen]
    ELSE IF DedupKey2(Head(jobs)) \in seen
    THEN JobsToSave2(Tail(jobs), maxJobs, total, seen, kept)
    ELSE JobsToSave2(Tail(jobs), maxJobs, total,
                     seen \cup {DedupKey2(Head(jobs))}, Append(kept, Head(jobs)))

(***************************************************************************)
(* The strategy chains of the two request handlers.                        *)
(***************************************************************************)
\* what a page visit of pipeline 1 reads from the page at extraction time
Sources ==
    [embedded |-> NoEmbedded, scripts |-> <<>>, dom |-> NoDom,
     nextData |-> NoNextData, cards2 |-> <<>>, evalFails |-> FALSE]

Ran(name, jobs) == [strategy |-> name, count |-> Len(jobs)]

\* if (jobs.length === 0) { jobs = await <strategy>; if (jobs.length > 0)
\* extractionMethod = <label> }
Strategy(st, name, found, label) ==
    IF Len(st.jobs) = 0
    THEN [st EXCEPT !.jobs = found,
                    !.ran = Append(@, Ran(name, found)),
                    !.method = IF Len(found) > 0 THEN label ELSE @]
    ELSE st

\* STRATEGY 1: the mapping of the intercepted items, when there are any
Intercepted(captured, method) ==
    LET mapped == MapCapturedJobs(captured)
    IN IF Len(captured) > 0
       THEN [threw |-> mapped.threw, jobs |-> mapped.jobs,
             ran |-> <<Ran("api", mapped.jobs)>>,
             method |-> "API Interceptor (Network)"]
       ELSE [threw |-> FALSE, jobs |-> <<>>, ran |-> <<>>, method |-> method]

\* what the handler is left with when a strategy threw
ChainThrew(st, method) ==
    IF st.threw THEN [st EXCEPT !.jobs = <<>>, !.method = method] ELSE st

\* the chain with STRATEGY 2 run and taken whenever it yields records
StrategyChain1_EmbeddedOverrides(captured, src, method) ==
    LET Always(st, name, found, label) ==
            [st EXCEPT !.jobs = IF Len(found) > 0 THEN found ELSE @,
                       !.ran = Append(@, Ran(name, found)),
                       !.method = IF Len(found) > 0 THEN label ELSE @]
        st == Intercepted(captured, method)
    IN IF st.threw
       THEN ChainThrew(st, method)
       ELSE Strategy(Strategy(Always(st,
                "embedded", extractJobsViaMonsterAPI(src.embedded, src.evalFails),
                "Monster Embedded API (Next.js)"),
                "jsonld", extractJobsViaJsonLD(src.scripts, src.evalFails),
                "JSON-LD Schema"),
                "dom", extractJobDataViaHTML(src.dom, src.evalFails),
                "HTML Parsing (Cheerio)")

\* pipeline 1, STRATEGY 1..4: the result, the strategies that were run with
\* the number of records each returned, and the extractionMethod label
StrategyChain1(captured, src, method) ==
    LET st == Intercepted(captured, method)
    IN IF st.threw
       THEN ChainThrew(st, method)
       ELSE Strategy(Strategy(Strategy(st,
                "embedded", extractJobsViaMonsterAPI(src.embedded, src.evalFails),
                "Monster Embedded API (Next.js)"),
                "jsonld", extractJobsViaJsonLD(src.scripts, src.evalFails),
                "JSON-LD Schema"),
                "dom", extractJobDataViaHTML(src.dom, src.evalFails),
                "HTML Parsing (Cheerio)")

\* pipeline 2, STRATEGY 1..3
StrategyChain2(src, method) ==
    Strategy(Strategy(Strategy(
        [threw |-> FALSE, jobs |-> <<>>, ran |-> <<>>, method |-> method],
        "embedded", extractJobsFromNextData(src.nextData, src.evalFails), "NEXT_DATA"),
        "jsonld", extractJobsFromJsonLD(src.scripts, src.evalFails), "JSON-LD"),
        "dom", extractJobsFromDOM(src.cards2, src.evalFails), "DOM")

(***************************************************************************)
(* The inputs the model draws from: what the site can serve.               *)
(***************************************************************************)
Snippet == <<"<", "b", ">", "H", "i", "<", "/", "b", ">", " ", "a", "l", "l">>
LongMarkup == <<"<", "p", ">">> \o Rep("x", 101) \o <<"<", "/", "p", ">">>
TwoParagraphs ==
    <<"<", "p", ">">> \o Rep("x", 60) \o <<"<", "/", "p", ">", "<", "p", ">">>
        \o Rep("y", 60) \o <<"<", "/", "p", ">">>

\* API items
ApiEngineer ==
    [Obj EXCEPT !.title = "Engineer", !.company = "Acme", !.jobUrl = "u1",
                !.description = Snippet]
ApiNurse == [Obj EXCEPT !.jobTitle = "Nurse", !.jobId = "7"]
ApiNoUrl ==
    [Obj EXCEPT !.title = "Engineer", !.company = "Acme", !.location = StrLoc("Boston")]
ApiCompanyOnly == [Obj EXCEPT !.company = "Acme"]

\* the response bodies a page visit may observe
ResponseBodies ==
    { [ResponseBody EXCEPT !.jobResults = Arr(<<ApiEngineer, ApiNurse>>)],
      [ResponseBody EXCEPT !.docs = Arr(<<ApiNoUrl, ApiCompanyOnly, ApiNoUrl>>)],
      [ResponseBody EXCEPT !.isArray = TRUE, !.items = <<NullObj>>],
      [ResponseBody EXCEPT !.isJson = FALSE] }

\* JSON-LD entries
LdEngineer ==
    [Obj EXCEPT !.type = "JobPosting", !.title = "Engineer", !.url = "u1",
                !.hiringOrganizationName = "Acme",
                !.jobLocation = AddrLoc("Boston", "MA", "US"),
                !.baseSalary = RangeSalary("50000", "70000", "USD")]
LdNurse == [Obj EXCEPT !.type = "JobPosting", !.title = "Nurse", !.url = "u3"]
LdUntitled == [Obj EXCEPT !.type = "JobPosting", !.url = "u4"]
LdOrganization == [Obj EXCEPT !.type = "Organization", !.name = "Acme"]

\* what the page holds when the extractors of pipeline 1 read it
EmbeddedChoices == {NoEmbedded, Embedded("nextjs", 1, Arr(<<ApiNurse>>))}
ScriptChoices == {<<>>, <<LdGraph(<<LdEngineer, LdOrganization, LdNurse>>)>>}
DomChoices ==
    {NoDom,
     [NoDom EXCEPT !.cards =
        <<[Card EXCEPT !.titleEls = <<TitleEl("Engineer", RelHref("/job/9"))>>,
                       !.company = <<"Acme">>]>>]}
Sources1 ==
    {[Sources EXCEPT !.embedded = e, !.scripts = l, !.dom = d] :
        e \in EmbeddedChoices, l \in ScriptChoices, d \in DomChoices}

\* what the page holds when the extractors of pipeline 2 read it
NextEngineer ==
    [Obj EXCEPT !.jobId = "7",
        !.jobPosting = [present |-> TRUE,
                        v |-> [Obj EXCEPT !.title = "Engineer", !.url = "u1",
                                          !.hiringOrganizationName = "Acme"]]]
NextNoUrl == [Obj EXCEPT !.title = "Engineer", !.company = "Acme"]
NextUntitled == [Obj EXCEPT !.company = "Acme", !.detailUrl = "u5"]
NextDataChoices ==
    {NoNextData, NextDataMalformed,
     NextData(3, Arr(<<NextEngineer, NextNoUrl, NextUntitled, NextNoUrl>>))}
ScriptChoices2 == ScriptChoices \cup {<<LdArray(<<LdEngineer>>)>>}
Cards2Choices == {<<>>, <<Card2("Nurse", "u3", "Acme", "Boston"), Card2("", "u6", "", "")>>}
Sources2 ==
    {[Sources EXCEPT !.nextData = n, !.scripts = l, !.cards2 = c] :
        n \in NextDataChoices, l \in ScriptChoices2, c \in Cards2Choices}

\* the outcomes of a detail-page request
DetailResponses ==
    { [DetailResponse EXCEPT !.error = "Response code 403 (Forbidden)"],
      [DetailResponse EXCEPT !.error = "Timeout awaiting 'request' for 15000ms"],
      [DetailResponse EXCEPT !.statusCode = 503],
      [DetailResponse EXCEPT !.statusCode = 404],
      [DetailResponse EXCEPT !.title = "Just a moment..."],
      [DetailResponse EXCEPT !.descEls = <<Snippet, LongMarkup>>, !.jobType = "Full-time"],
      [DetailResponse EXCEPT !.descEls = <<TwoParagraphs>>],
      [DetailResponse EXCEPT !.descEls = <<Snippet>>] }

(***************************************************************************)
(* State.                                                                  *)
(***************************************************************************)
VARIABLES
    pipeline,          \* 1 or 2: which draft of the actor runs
    input,             \* Actor.getInput(): searchUrl, searchQuery, location,
                       \* maxJobs, maxPages, httpOnly
    mainPc,            \* "start", "failed", "crawling", "finished"
    requestQueue,      \* page numbers waiting in the crawler's queue
    addedKeys,         \* uniqueKeys ever added to the queue
    handledRequests,   \* requests the crawler has started
    totalJobsScraped,
    pagesProcessed,
    extractionMethod,
    seenJobUrls,
    dataset,           \* records written by Actor.pushData, in order
    kvStore,           \* keys written by Actor.setValue
    visits,            \* the request handlers that may run concurrently
    fnPc,              \* extractor applied on its own: "off", "ready", "done"
    fnIn,              \* its input
    fnOut              \* its result

vars ==
    <<pipeline, input, mainPc, requestQueue, addedKeys, handledRequests,
      totalJobsScraped, pagesProcessed, extractionMethod, seenJobUrls,
      dataset, kvStore, visits, fnPc, fnIn, fnOut>>

fnVars == <<fnPc, fnIn, fnOut>>

Slots == 1..maxConcurrency1

\* a handler slot that runs nothing; outcome tells how its last visit ended
IdleVisit ==
    [pc |-> "idle", page |-> 0, outcome |-> "none",
     received |-> 0, pending |-> <<>>, capturedApiJobs |-> <<>>,
     retryCount |-> 0, challenged |-> FALSE, cloudflareDetected |-> FALSE,
     sources |-> Sources, ran |-> <<>>, jobs |-> <<>>, uniqueJobs |-> <<>>,
     jobsToSave |-> <<>>,
     batchSize |-> 0, batchStart |-> 0, inflight |-> {}, batchResults |-> <<>>,
     fetchKinds |-> <<>>, enrichedJobs |-> <<>>, blockedCount |-> 0,
     survived |-> 0, written |-> 0, hasNextPage |-> FALSE, failedAt |-> ""]

\* the slot after a visit: the page, how the visit ended ("blocked", "empty",
\* "limit", "done", or "error" with the step that threw), the number of
\* records that survived deduplication and the number written
Ended(v, outcome) ==
    [IdleVisit EXCEPT !.page = v.page, !.outcome = outcome,
                      !.failedAt = IF outcome = "error" THEN v.pc ELSE "",
                      !.survived = v.survived, !.written = v.written]

maxJobs == input.maxJobs
maxPages == input.maxPages

maxConcurrency == IF pipeline = 1 THEN maxConcurrency1 ELSE maxConcurrency2

\* a crawler without a limit on its requests worth the name
maxRequestsPerCrawl_Unlimited == 1000 * maxRequestsPerCrawl1

maxRequestsPerCrawl ==
    IF pipeline = 1 THEN maxRequestsPerCrawl1
    ELSE IF maxPages > 0 THEN maxPages ELSE defaultRequestsPerCrawl2

Running == {s \in Slots : visits[s].pc # "idle"}

\* a search field: absent or empty, blank, or filled
SearchField == {<<>>, <<" ">>, <<"q">>}

\* the actor inputs with a searchUrl or no search field at all, the option
\* httpOnly left at its default, and set
Inputs ==
    [searchUrl : {<<>>, <<"q">>}, searchQuery : {<<>>}, location : {<<>>},
     maxJobs : 0..MaxJobsInput, maxPages : 0..MaxPagesInput, httpOnly : {FALSE}]

InputsHttpOnly ==
    [searchUrl : {<<>>, <<"q">>}, searchQuery : {<<>>}, location : {<<>>},
     maxJobs : 0..MaxJobsInput, maxPages : 0..MaxPagesInput, httpOnly : {TRUE}]

\* the actor inputs with every combination of the search fields
InputsSearch ==
    [searchUrl : SearchField, searchQuery : SearchField, location : SearchField,
     maxJobs : {2}, maxPages : {0}, httpOnly : {FALSE}]

\* the test without the trimming
Blank_Untrimmed(field) == field = <<>>

\* !field?.trim()
Blank(field) == Trim(field) = <<>>

maxJobsLimit == 10000

\* the input passes the validation of main
ValidInput ==
    IF pipeline = 1
    THEN /\ ~Blank(input.searchUrl)
            \/ ~(Blank(input.searchQuery) \/ Blank(input.location))
         /\ ~(maxJobs < 0 \/ maxJobs > maxJobsLimit)
    ELSE ~(Blank(input.searchUrl) /\ Blank(input.searchQuery))

\* the state when main starts with one of the given inputs
Started(inputs) ==
    /\ pipeline \in {1, 2}
    /\ input \in inputs
    /\ mainPc = "start"
    /\ requestQueue = <<>>
    /\ addedKeys = {}
    /\ handledRequests = 0
    /\ totalJobsScraped = 0
    /\ pagesProcessed = 0
    /\ extractionMethod = "None"
    /\ seenJobUrls = {}
    /\ dataset = <<>>
    /\ kvStore = {}
    /\ visits = [s \in Slots |-> IdleVisit]
    /\ fnPc = "off"
    /\ fnIn = <<>>
    /\ fnOut = <<>>

Init == Started(Inputs)

InitHttpOnly == Started(InputsHttpOnly)

InitSearch == Started(InputsSearch)

(***************************************************************************)
(* Helpers of the actions.                                                 *)
(***************************************************************************)
Visit(s) == visits[s]

SetVisit(s, v) == visits' = [visits EXCEPT ![s] = v]

\* saveDebugInfo that stores nothing
saveDebugInfo_StoresNothing(kv, fails) == kv

\* saveDebugInfo: best effort, its own catch swallows a failure
saveDebugInfo(kv, fails) ==
    IF fails THEN kv ELSE kv \cup {"DEBUG_PAGE_HTML", "DEBUG_STRUCTURE_ANALYSIS"}

\* the catch block of the request handler
CatchKeys(kv) == IF pipeline = 2 THEN kv \cup {"ERROR_SCREENSHOT"} ELSE kv

RemoveAt(seq, k) == SubSeq(seq, 1, k - 1) \o SubSeq(seq, k + 1, Len(seq))

\* the positions of the batch that starts after position i
BatchPositions(v, i) == (i + 1)..Min(i + v.batchSize, Len(v.uniqueJobs))

\* every job that is left put in flight at once
StartBatch_AllAtOnce(v, i) ==
    [v EXCEPT !.pc = "fetching",
              !.batchStart = i,
              !.inflight = {q \in (i + 1)..Len(v.uniqueJobs) : v.uniqueJobs[q].url # ""},
              !.batchResults = SubSeq(v.uniqueJobs, i + 1,
                                      Min(i + v.batchSize, Len(v.uniqueJobs)))]

\* batch.map(async job => ...): a job without url resolves at once
StartBatch(v, i) ==
    [v EXCEPT !.pc = "fetching",
              !.batchStart = i,
              !.inflight = {q \in BatchPositions(v, i) : v.uniqueJobs[q].url # ""},
              !.batchResults = SubSeq(v.uniqueJobs, i + 1,
                                      Min(i + v.batchSize, Len(v.uniqueJobs)))]

\* the results with a resolved job put at the first place still in flight
BatchResults_CompletionOrder(v, q, job) ==
    LET first == CHOOSE p \in v.inflight : \A r \in v.inflight : p <= r
    IN [v.batchResults EXCEPT ![first - v.batchStart] = job]

\* Promise.all(batchPromises): the job that position q of the input resolves
\* to takes the place of its promise in the results
BatchResults(v, q, job) ==
    [v.batchResults EXCEPT ![q - v.batchStart] = job]

(***************************************************************************)
(* main: the validation throws, or crawler.run([searchUrl]).  The input     *)
(* option httpOnly is not read.                                            *)
(***************************************************************************)
InvalidInput ==
    /\ mainPc = "start"
    /\ ~ValidInput
    /\ mainPc' = "failed"
    /\ UNCHANGED <<fnVars, pipeline, input, requestQueue, addedKeys, handledRequests,
                   totalJobsScraped, pagesProcessed, extractionMethod, seenJobUrls,
                   dataset, kvStore, visits>>

\* a start that enqueues the first two result pages at once
RunCrawler_TwoStartUrls ==
    /\ mainPc = "start"
    /\ ValidInput
    /\ mainPc' = "crawling"
    /\ requestQueue' = <<1, 2>>
    /\ addedKeys' = {1, 2}
    /\ UNCHANGED <<fnVars, pipeline, input, handledRequests, totalJobsScraped, pagesProcessed,
                   extractionMethod, seenJobUrls, dataset, kvStore, visits>>

RunCrawler ==
    /\ mainPc = "start"
    /\ ValidInput
    /\ mainPc' = "crawling"
    /\ requestQueue' = <<1>>
    /\ addedKeys' = {1}
    /\ UNCHANGED <<fnVars, pipeline, input, handledRequests, totalJobsScraped, pagesProcessed,
                   extractionMethod, seenJobUrls, dataset, kvStore, visits>>

(***************************************************************************)
(* The crawler hands the next request to a free handler slot; the handler  *)
(* counts the page and sets up the interceptor.                            *)
(***************************************************************************)
StartVisit(s) ==
    /\ mainPc = "crawling"
    /\ requestQueue # <<>>
    /\ Cardinality(Running) < maxConcurrency
    /\ handledRequests < maxRequestsPerCrawl
    /\ Visit(s).pc = "idle"
    /\ \A t \in Slots : t < s => Visit(t).pc # "idle"
    /\ requestQueue' = Tail(requestQueue)
    /\ handledRequests' = handledRequests + 1
    /\ pagesProcessed' = pagesProcessed + 1
    /\ SetVisit(s, [IdleVisit EXCEPT !.pc = "navigate", !.page = Head(requestQueue)])
    /\ UNCHANGED <<fnVars, pipeline, input, mainPc, addedKeys, totalJobsScraped,
                   extractionMethod, seenJobUrls, dataset, kvStore>>

(***************************************************************************)
(* page.goto and the wait for the load state: it fails, or the page shows  *)
(* a challenge or not.                                                     *)
(***************************************************************************)
Navigate(s) ==
    /\ Visit(s).pc = "navigate"
    /\ \E ok \in BOOLEAN, challenge \in BOOLEAN :
         IF ~ok
         THEN /\ SetVisit(s, Ended(Visit(s), "error"))
              /\ kvStore' = CatchKeys(kvStore)
         ELSE /\ SetVisit(s, [Visit(s) EXCEPT
                     !.pc = IF pipeline = 1 THEN "cloudflare" ELSE "extract",
                     !.challenged = (pipeline = 1 /\ challenge)])
              /\ UNCHANGED kvStore
    /\ UNCHANGED <<fnVars, pipeline, input, mainPc, requestQueue, addedKeys, handledRequests,
                   totalJobsScraped, pagesProcessed, extractionMethod, seenJobUrls,
                   dataset>>

(***************************************************************************)
(* setupAPIInterceptor: page.on('response').                               *)
(***************************************************************************)
InterceptorLive(v) == v.pc \in {"navigate", "cloudflare", "extract"}

ResponseReceived(s) ==
    /\ pipeline = 1
    /\ InterceptorLive(Visit(s))
    /\ Visit(s).received < MaxResponses
    /\ \E response \in ResponseBodies :
         SetVisit(s, [Visit(s) EXCEPT
             !.received = @ + 1,
             !.pending = IF AwaitsJson(response) THEN Append(@, response) ELSE @])
    /\ UNCHANGED <<fnVars, pipeline, input, mainPc, requestQueue, addedKeys, handledRequests,
                   totalJobsScraped, pagesProcessed, extractionMethod, seenJobUrls,
                   dataset, kvStore>>

\* await response.json() resolves for one of the pending responses
ResponseParsed(s) ==
    /\ pipeline = 1
    /\ InterceptorLive(Visit(s))
    /\ \E k \in 1..Len(Visit(s).pending) :
         SetVisit(s, [Visit(s) EXCEPT
             !.pending = RemoveAt(@, k),
             !.capturedApiJobs = @ \o InterceptedJobs(Visit(s).pending[k])])
    /\ UNCHANGED <<fnVars, pipeline, input, mainPc, requestQueue, addedKeys, handledRequests,
                   totalJobsScraped, pagesProcessed, extractionMethod, seenJobUrls,
                   dataset, kvStore>>

(***************************************************************************)
(* One iteration of the Cloudflare loop, with the test that follows the    *)
(* loop when the iteration ends it.  The slot of a blocked visit keeps the *)
(* number of rounds, whether the page still shows the challenge after the  *)
(* last one, and whether saveDebugInfo failed.                             *)
(***************************************************************************)
CloudflareRound(s) ==
    /\ pipeline = 1
    /\ Visit(s).pc = "cloudflare"
    /\ Visit(s).retryCount < maxRetries
    /\ IF Visit(s).challenged
       THEN \E still \in BOOLEAN, saveFails \in BOOLEAN :
              IF Visit(s).retryCount + 1 >= maxRetries
              THEN /\ SetVisit(s, [Ended(Visit(s), "blocked") EXCEPT
                            !.retryCount = Visit(s).retryCount + 1,
                            !.cloudflareDetected = TRUE,
                            !.challenged = still,
                            !.failedAt = IF saveFails THEN "saveDebugInfo" ELSE ""])
                   /\ kvStore' = saveDebugInfo(kvStore, saveFails)
              ELSE /\ SetVisit(s, [Visit(s) EXCEPT !.retryCount = @ + 1,
                                                   !.cloudflareDetected = TRUE,
                                                   !.challenged = still])
                   /\ UNCHANGED kvStore
       ELSE /\ SetVisit(s, [Visit(s) EXCEPT !.pc = "extract"])
            /\ UNCHANGED kvStore
    /\ UNCHANGED <<fnVars, pipeline, input, mainPc, requestQueue, addedKeys, handledRequests,
                   totalJobsScraped, pagesProcessed, extractionMethod, seenJobUrls,
                   dataset>>

(***************************************************************************)
(* The strategy chain and the test for an empty result.  The handler reads *)
(* neither the loop's locals nor the interceptor again after this step.    *)
(***************************************************************************)
ExtractFrom(s, sources) ==
    /\ Visit(s).pc = "extract"
    /\ \E src \in sources :
         \E r \in {IF pipeline = 1
                   THEN StrategyChain1(Visit(s).capturedApiJobs, src, extractionMethod)
                   ELSE StrategyChain2(src, extractionMethod)} :
            IF r.threw
            THEN /\ SetVisit(s, Ended(Visit(s), "error"))
                 /\ kvStore' = CatchKeys(kvStore)
                 /\ UNCHANGED extractionMethod
            ELSE IF Len(r.jobs) = 0
            THEN /\ SetVisit(s, Ended(Visit(s), "empty"))
                 /\ \E saveFails \in BOOLEAN :
                      kvStore' = IF pipeline = 1 THEN saveDebugInfo(kvStore, saveFails)
                                 ELSE kvStore \cup {"DEBUG_SCREENSHOT"}
                 /\ UNCHANGED extractionMethod
            ELSE /\ SetVisit(s, [IdleVisit EXCEPT
                        !.pc = "extracted", !.page = Visit(s).page,
                        !.capturedApiJobs = Visit(s).capturedApiJobs,
                        !.sources = src, !.ran = r.ran, !.jobs = r.jobs])
                 /\ extractionMethod' = r.method
                 /\ UNCHANGED kvStore
    /\ UNCHANGED <<fnVars, pipeline, input, mainPc, requestQueue, addedKeys, handledRequests,
                   totalJobsScraped, pagesProcessed, seenJobUrls, dataset>>

Extract(s) == ExtractFrom(s, IF pipeline = 1 THEN Sources1 ELSE Sources2)

(***************************************************************************)
(* The record budget and the duplicate filter.                             *)
(***************************************************************************)
SliceAndDedup(s) ==
    /\ Visit(s).pc = "extracted"
    /\ LET r == IF pipeline = 1
                THEN JobsToSave1(Visit(s).jobs, maxJobs, totalJobsScraped, seenJobUrls)
                ELSE JobsToSave2(Visit(s).jobs, maxJobs, totalJobsScraped, seenJobUrls, <<>>)
           next == IF pipeline = 1
                   THEN IF Len(r.jobs) > 0 THEN "enrich" ELSE "count"
                   ELSE IF Len(r.jobs) > 0 THEN "push" ELSE "idle"
       IN /\ seenJobUrls' = r.seen
          /\ SetVisit(s, IF next = "idle" THEN Ended(Visit(s), "done")
                         ELSE [IdleVisit EXCEPT !.pc = next, !.page = Visit(s).page,
                                                !.jobs = Visit(s).jobs,
                                                !.survived = Len(r.jobs),
                                                !.uniqueJobs = r.jobs,
                                                !.jobsToSave = r.jobs])
    /\ UNCHANGED <<fnVars, pipeline, input, mainPc, requestQueue, addedKeys, handledRequests,
                   totalJobsScraped, pagesProcessed, extractionMethod, dataset, kvStore>>

(***************************************************************************)
(* enrichJobsWithFullDescriptions.                                         *)
(***************************************************************************)
\* the cookies and the user agent are read, then the first batch starts
EnrichStart(s) ==
    /\ pipeline = 1
    /\ Visit(s).pc = "enrich"
    /\ \E ok \in BOOLEAN :
         IF ~ok
         THEN /\ SetVisit(s, Ended(Visit(s), "error"))
         ELSE /\ SetVisit(s, StartBatch([Visit(s) EXCEPT
                     !.batchSize = enrichConcurrency,
                     !.fetchKinds = [q \in 1..Len(Visit(s).uniqueJobs) |-> "none"]], 0))
    /\ UNCHANGED <<fnVars, pipeline, input, mainPc, requestQueue, addedKeys, handledRequests,
                   totalJobsScraped, pagesProcessed, extractionMethod, seenJobUrls,
                   dataset, kvStore>>

\* one detail fetch of the batch in flight completes with one of the given
\* responses
FetchDoneWith(s, responses) ==
    /\ pipeline = 1
    /\ Visit(s).pc = "fetching"
    /\ \E q \in Visit(s).inflight, response \in responses :
         LET fullDesc == fetchFullDescription(response)
             job == Visit(s).uniqueJobs[q]
         IN SetVisit(s, [Visit(s) EXCEPT
                !.inflight = @ \ {q},
                !.batchResults = BatchResults(Visit(s), q, EnrichedJob(job, fullDesc)),
                !.blockedCount = @ + BlockedIncrement(fullDesc),
                !.fetchKinds[q] = fullDesc.kind])
    /\ UNCHANGED <<fnVars, pipeline, input, mainPc, requestQueue, addedKeys, handledRequests,
                   totalJobsScraped, pagesProcessed, extractionMethod, seenJobUrls,
                   dataset, kvStore>>

FetchDone(s) == FetchDoneWith(s, DetailResponses)

\* Promise.all resolves: the batch is appended; the function returns after
\* the last batch and pauses before any other
BatchDone(s) ==
    /\ pipeline = 1
    /\ Visit(s).pc = "fetching"
    /\ Visit(s).inflight = {}
    /\ LET v == Visit(s)
           enriched == v.enrichedJobs \o v.batchResults
       IN SetVisit(s, IF v.batchStart + v.batchSize < Len(v.uniqueJobs)
                      THEN [v EXCEPT !.pc = "pause", !.enrichedJobs = enriched,
                                     !.batchResults = <<>>]
                      ELSE [v EXCEPT !.pc = "push", !.enrichedJobs = enriched,
                                     !.batchResults = <<>>, !.jobsToSave = enriched])
    /\ UNCHANGED <<fnVars, pipeline, input, mainPc, requestQueue, addedKeys, handledRequests,
                   totalJobsScraped, pagesProcessed, extractionMethod, seenJobUrls,
                   dataset, kvStore>>

\* the pause of 200 ms is over: the next turn of the loop starts its batch
NextBatch(s) ==
    /\ pipeline = 1
    /\ Visit(s).pc = "pause"
    /\ SetVisit(s, StartBatch(Visit(s), Visit(s).batchStart + Visit(s).batchSize))
    /\ UNCHANGED <<fnVars, pipeline, input, mainPc, requestQueue, addedKeys, handledRequests,
                   totalJobsScraped, pagesProcessed, extractionMethod, seenJobUrls,
                   dataset, kvStore>>

(***************************************************************************)
(* Actor.pushData, the counter and the record limit.                       *)
(***************************************************************************)
PushData(s) ==
    /\ Visit(s).pc = "push"
    /\ \E ok \in BOOLEAN :
         IF ~ok
         THEN /\ SetVisit(s, Ended(Visit(s), "error"))
              /\ kvStore' = CatchKeys(kvStore)
              /\ UNCHANGED dataset
         ELSE /\ dataset' = dataset \o Visit(s).jobsToSave
              /\ SetVisit(s, [Visit(s) EXCEPT !.pc = "count",
                                              !.written = Len(Visit(s).jobsToSave)])
              /\ UNCHANGED kvStore
    /\ UNCHANGED <<fnVars, pipeline, input, mainPc, requestQueue, addedKeys, handledRequests,
                   totalJobsScraped, pagesProcessed, extractionMethod, seenJobUrls>>

\* totalJobsScraped += jobsToSave.length, then the test of the limit
CountJobs(s) ==
    /\ Visit(s).pc = "count"
    /\ LET total == totalJobsScraped + Len(Visit(s).jobsToSave)
       IN /\ totalJobsScraped' = total
          /\ SetVisit(s, IF pipeline = 2 THEN Ended(Visit(s), "done")
                         ELSE IF maxJobs > 0 /\ total >= maxJobs
                         THEN Ended(Visit(s), "limit")
                         ELSE [Visit(s) EXCEPT !.pc = "paginate"])
    /\ UNCHANGED <<fnVars, pipeline, input, mainPc, requestQueue, addedKeys, handledRequests,
                   pagesProcessed, extractionMethod, seenJobUrls, dataset, kvStore>>

(***************************************************************************)
(* Pagination: the next-page control is read and the next page requested.  *)
(***************************************************************************)
\* crawler.addRequests([{url, uniqueKey}]): a key already added is ignored
AddRequest(queue, keys, page) == IF page \in keys THEN queue ELSE Append(queue, page)

\* the site has the given number of result pages
PaginateOn(s, pages) ==
    /\ pipeline = 1
    /\ Visit(s).pc = "paginate"
    /\ \E ok \in BOOLEAN,
          hasNextPage \in (IF Visit(s).page < pages THEN BOOLEAN ELSE {FALSE}) :
         IF ~ok
         THEN /\ SetVisit(s, Ended(Visit(s), "error"))
              /\ UNCHANGED <<requestQueue, addedKeys>>
         ELSE /\ SetVisit(s, [Ended(Visit(s), "done") EXCEPT !.hasNextPage = hasNextPage])
              /\ IF hasNextPage /\ totalJobsScraped < maxJobs
                 THEN /\ requestQueue' = AddRequest(requestQueue, addedKeys, Visit(s).page + 1)
                      /\ addedKeys' = addedKeys \cup {Visit(s).page + 1}
                 ELSE UNCHANGED <<requestQueue, addedKeys>>
    /\ UNCHANGED <<fnVars, pipeline, input, mainPc, handledRequests, totalJobsScraped,
                   pagesProcessed, extractionMethod, seenJobUrls, dataset, kvStore>>

Paginate(s) == PaginateOn(s, SitePages)

(***************************************************************************)
(* crawler.run resolves; the first pipeline persists the statistics.       *)
(***************************************************************************)
Finish ==
    /\ mainPc = "crawling"
    /\ Running = {}
    /\ requestQueue = <<>> \/ handledRequests >= maxRequestsPerCrawl
    /\ mainPc' = "finished"
    /\ kvStore' = IF pipeline = 1 THEN kvStore \cup {"statistics"} ELSE kvStore
    /\ UNCHANGED <<fnVars, pipeline, input, requestQueue, addedKeys, handledRequests,
                   totalJobsScraped, pagesProcessed, extractionMethod, seenJobUrls,
                   dataset, visits>>

Next ==
    \/ InvalidInput
    \/ RunCrawler
    \/ \E s \in Slots : StartVisit(s)
    \/ \E s \in Slots : Navigate(s)
    \/ \E s \in Slots : ResponseReceived(s)
    \/ \E s \in Slots : ResponseParsed(s)
    \/ \E s \in Slots : CloudflareRound(s)
    \/ \E s \in Slots : Extract(s)
    \/ \E s \in Slots : SliceAndDedup(s)
    \/ \E s \in Slots : EnrichStart(s)
    \/ \E s \in Slots : FetchDone(s)
    \/ \E s \in Slots : BatchDone(s)
    \/ \E s \in Slots : PushData(s)
    \/ \E s \in Slots : CountJobs(s)
    \/ \E s \in Slots : Paginate(s)
    \/ Finish

Spec == Init /\ [][Next]_vars

\* the runs with the input option httpOnly set
SpecHttpOnly == InitHttpOnly /\ [][Next]_vars

\* the runs over every combination of the search fields
SpecSearch == InitSearch /\ [][Next]_vars

(***************************************************************************)
(* The JSON-LD extractors applied on their own to one script block.        *)
(***************************************************************************)
SeqsUpTo(S, n) == UNION {[1..k -> S] : k \in 0..n}

LdEntries == {LdEngineer, LdNurse, LdUntitled, LdOrganization}

\* the wrapper shapes of a block that holds the given entries
LdShapes(entries) ==
    {[shape |-> "array", entries |-> entries, script |-> LdArray(entries)],
     [shape |-> "graph", entries |-> entries, script |-> LdGraph(entries)],
     [shape |-> "itemList", entries |-> entries,
      script |-> LdItemList([i \in 1..Len(entries) |-> Wrapped(entries[i])])],
     [shape |-> "itemListBare", entries |-> entries,
      script |-> LdItemList([i \in 1..Len(entries) |-> Bare(entries[i])])]}
    \cup (IF Len(entries) = 1
          THEN {[shape |-> "object", entries |-> entries, script |-> LdObject(entries[1])]}
          ELSE {})

LdInputs == UNION {LdShapes(entries) : entries \in SeqsUpTo(LdEntries, MaxEntries)}

InitJsonLD ==
    /\ pipeline \in {1, 2}
    /\ input = [searchUrl |-> <<>>, searchQuery |-> <<>>, location |-> <<>>,
                maxJobs |-> 0, maxPages |-> 0, httpOnly |-> FALSE]
    /\ mainPc = "off"
    /\ requestQueue = <<>>
    /\ addedKeys = {}
    /\ handledRequests = 0
    /\ totalJobsScraped = 0
    /\ pagesProcessed = 0
    /\ extractionMethod = "None"
    /\ seenJobUrls = {}
    /\ dataset = <<>>
    /\ kvStore = {}
    /\ visits = [s \in Slots |-> IdleVisit]
    /\ fnPc = "ready"
    /\ fnIn \in LdInputs
    /\ fnOut = <<>>

ApplyJsonLD ==
    /\ fnPc = "ready"
    /\ fnPc' = "done"
    /\ fnOut' = IF pipeline = 1
                THEN extractJobsViaJsonLD(<<fnIn.script>>, FALSE)
                ELSE extractJobsFromJsonLD(<<fnIn.script>>, FALSE)
    /\ UNCHANGED <<fnIn, pipeline, input, mainPc, requestQueue, addedKeys,
                   handledRequests, totalJobsScraped, pagesProcessed,
                   extractionMethod, seenJobUrls, dataset, kvStore, visits>>

NextJsonLD == ApplyJsonLD

SpecJsonLD == InitJsonLD /\ [][NextJsonLD]_vars

(***************************************************************************)
(* A pure function of the actor applied on its own: the argument is drawn  *)
(* from the given set, one step applies the function.                      *)
(***************************************************************************)
Applying(inputs) ==
    /\ pipeline \in {1, 2}
    /\ input = [searchUrl |-> <<>>, searchQuery |-> <<>>, location |-> <<>>,
                maxJobs |-> 0, maxPages |-> 0, httpOnly |-> FALSE]
    /\ mainPc = "off"
    /\ requestQueue = <<>>
    /\ addedKeys = {}
    /\ handledRequests = 0
    /\ totalJobsScraped = 0
    /\ pagesProcessed = 0
    /\ extractionMethod = "None"
    /\ seenJobUrls = {}
    /\ dataset = <<>>
    /\ kvStore = {}
    /\ visits = [s \in Slots |-> IdleVisit]
    /\ fnPc = "ready"
    /\ fnIn \in inputs
    /\ fnOut = <<>>

Applied(result) ==
    /\ fnPc = "ready"
    /\ fnPc' = "done"
    /\ fnOut' = result
    /\ UNCHANGED <<fnIn, pipeline, input, mainPc, requestQueue, addedKeys,
                   handledRequests, totalJobsScraped, pagesProcessed,
                   extractionMethod, seenJobUrls, dataset, kvStore, visits>>

(***************************************************************************)
(* The salary of a record: parseJobPosting in pipeline 1 and               *)
(* normalizeMonsterJob in pipeline 2, applied to a titled job.             *)
(***************************************************************************)
\* baseSalary absent, present without value, a range or a scalar; job.salary
\* absent or a string
SalaryInputs ==
    [baseSalary :
        {NoSalary, [NoSalary EXCEPT !.present = TRUE]}
        \cup {RangeSalary(lo, hi, cur) :
                lo \in {"", "0", "50000"}, hi \in {"", "70000"}, cur \in {"", "USD"}}
        \cup {ScalarSalary(v, cur) : v \in {"0", "50000"}, cur \in {"", "USD"}},
     salary : {"", "$50k"}]

ApplySalary ==
    Applied(IF pipeline = 1
            THEN parseJobPosting([LdEngineer EXCEPT !.baseSalary = fnIn.baseSalary,
                                                    !.salary = fnIn.salary]).salary
            ELSE normalizeMonsterJob([NextNoUrl EXCEPT !.baseSalary = fnIn.baseSalary,
                                                       !.salary = fnIn.salary]).salary)

SpecSalary == Applying(SalaryInputs) /\ [][ApplySalary]_vars

(***************************************************************************)
(* stripHtml applied on its own.                                           *)
(***************************************************************************)
HelloWorldMarkup ==
    <<"<", "p", ">", "H", "e", "l", "l", "o", " ", "<", "b", ">", "W", "o", "r",
      "l", "d", "<", "/", "b", ">", "<", "/", "p", ">">>

\* every string of tag delimiters, whitespace and a letter up to the bound
\* (the empty string stands for an absent argument too), and the example
MarkupInputs ==
    SeqsUpTo({"<", ">", " ", "\n", "a"}, MaxMarkupLen) \cup {HelloWorldMarkup}

ApplyStripHtml == Applied(stripHtml(fnIn))

SpecStripHtml == Applying(MarkupInputs) /\ [][ApplyStripHtml]_vars

(***************************************************************************)
(* The record builders applied on their own: extractJobFromElement on a    *)
(* job card in pipeline 1 and normalizeMonsterJob on a raw job in          *)
(* pipeline 2.                                                             *)
(***************************************************************************)
\* the elements a title selector can match: with or without text, with or
\* without href
TitleEls ==
    {TitleEl(text, href) : text \in {"", "Engineer"}, href \in {NoHref, RelHref("/job/1")}}

\* cards with up to two title elements; raw jobs with or without a title,
\* a name, a detailUrl and a jobId, and the null job
CandidateInputs ==
    [card : {[Card EXCEPT !.titleEls = els] : els \in SeqsUpTo(TitleEls, 2)},
     raw : {[Obj EXCEPT !.title = t, !.name = n, !.detailUrl = u, !.jobId = id] :
               t \in {"", "Engineer"}, n \in {"", "Nurse"},
               u \in {"", "u5"}, id \in {"", "7"}}
           \cup {NullObj}]

ApplyNormalize ==
    Applied(IF pipeline = 1 THEN extractJobFromElement(fnIn.card)
            ELSE normalizeMonsterJob(fnIn.raw))

SpecNormalize == Applying(CandidateInputs) /\ [][ApplyNormalize]_vars

(***************************************************************************)
(* The response handler of the interceptor applied on its own to the body  *)
(* of one matching JSON response.                                          *)
(***************************************************************************)
\* an object with each envelope key absent, a non-array value or an array
\* of its own; a body that is an array; a null body; a body that does not
\* parse
BodyInputs ==
    {[ResponseBody EXCEPT !.jobResults = a, !.docs = b, !.results = c, !.dataJobs = d] :
        a \in {Absent, NonArray, Arr(<<ApiEngineer>>)},
        b \in {Absent, NonArray, Arr(<<ApiNurse>>)},
        c \in {Absent, Arr(<<ApiNoUrl>>)},
        d \in {Absent, NonArray, Arr(<<ApiCompanyOnly>>)}}
    \cup {[ResponseBody EXCEPT !.isArray = TRUE, !.items = <<ApiEngineer, ApiNurse>>],
          [ResponseBody EXCEPT !.isNull = TRUE],
          [ResponseBody EXCEPT !.parses = FALSE]}

ApplyInterceptor == pipeline = 1 /\ Applied(InterceptedJobs(fnIn))

SpecInterceptor == Applying(BodyInputs) /\ [][ApplyInterceptor]_vars

(***************************************************************************)
(* enrichJobsWithFullDescriptions on its own: the first page of an         *)
(* unbounded run has yielded one record, a full batch of records, or one   *)
(* record more than a batch, and the visit is about to enrich them.  Each  *)
(* detail fetch gives a description.                                       *)
(***************************************************************************)
EnrichLengths == {1, enrichConcurrency, enrichConcurrency + 1}

EnrichResponses ==
    { [DetailResponse EXCEPT !.descEls = <<Snippet, LongMarkup>>, !.jobType = "Full-time"] }

InitEnrich ==
    /\ pipeline = 1
    /\ input = [searchUrl |-> <<"q">>, searchQuery |-> <<>>, location |-> <<>>,
                maxJobs |-> 0, maxPages |-> 0, httpOnly |-> FALSE]
    /\ mainPc = "crawling"
    /\ requestQueue = <<>>
    /\ addedKeys = {1}
    /\ handledRequests = 1
    /\ totalJobsScraped = 0
    /\ pagesProcessed = 1
    /\ extractionMethod = "API Interceptor (Network)"
    /\ seenJobUrls = {"u1"}
    /\ dataset = <<>>
    /\ kvStore = {}
    /\ \E n \in EnrichLengths :
         LET jobs == [q \in 1..n |-> MapRawJob(ApiEngineer)]
         IN visits = [s \in Slots |->
                        IF s = 1
                        THEN [IdleVisit EXCEPT !.pc = "enrich", !.page = 1,
                                               !.jobs = jobs, !.survived = n,
                                               !.uniqueJobs = jobs, !.jobsToSave = jobs]
                        ELSE IdleVisit]
    /\ fnPc = "off"
    /\ fnIn = <<>>
    /\ fnOut = <<>>

NextEnrich ==
    \/ \E s \in Slots : EnrichStart(s)
    \/ \E s \in Slots : FetchDoneWith(s, EnrichResponses)
    \/ \E s \in Slots : BatchDone(s)
    \/ \E s \in Slots : NextBatch(s)

SpecEnrich == InitEnrich /\ [][NextEnrich]_vars

(***************************************************************************)
(* The per-job mapper of the enrichment applied on its own to a record and *)
(* the response of its detail page.                                        *)
(***************************************************************************)
\* records with and without url; the detail responses, and a detail page
\* with a description and no job type
MapperInputs ==
    [job : {MapRawJob(ApiEngineer), MapRawJob(ApiNurse), MapRawJob(ApiNoUrl),
            MapRawJob([ApiEngineer EXCEPT !.jobType = "Contract"]),
            parseJobPosting(LdEngineer), parseJobPosting(LdNurse)},
     response : DetailResponses
                \cup {[DetailResponse EXCEPT !.descEls = <<LongMarkup>>]}]

\* if (!job.url) return job; otherwise the fetch and the merge
ApplyMapper ==
    pipeline = 1
    /\ Applied(IF fnIn.job.url = "" THEN fnIn.job
               ELSE EnrichedJob(fnIn.job, fetchFullDescription(fnIn.response)))

SpecMapper == Applying(MapperInputs) /\ [][ApplyMapper]_vars

(***************************************************************************)
(* The runs on a site with more result pages than the crawler's request    *)
(* limit.  Every page serves the same job, alone in its embedded data (or  *)
(* hydration data) or followed by a second one in its JSON-LD; no matching *)
(* response is intercepted, and the detail page is not found.  The crawler *)
(* runs a handler that can take a step.                                    *)
(***************************************************************************)
ManyPages == maxRequestsPerCrawl1 + 1

SourcesOfManyPages ==
    IF pipeline = 1
    THEN {[Sources EXCEPT !.embedded =
              Embedded("nextjs", 1, Arr(<<[ApiEngineer EXCEPT !.description = <<>>]>>))],
          [Sources EXCEPT !.scripts = <<LdGraph(<<LdEngineer, LdOrganization, LdNurse>>)>>]}
    ELSE {[Sources EXCEPT !.nextData = NextData(3, Arr(<<NextEngineer>>))]}

InitPages ==
    Started([searchUrl : {<<"q">>}, searchQuery : {<<>>}, location : {<<>>},
             maxJobs : {0, 2}, maxPages : {0, 2}, httpOnly : {FALSE}])

NextPages ==
    \/ RunCrawler
    \/ \E s \in Slots : StartVisit(s)
    \/ \E s \in Slots : Navigate(s)
    \/ \E s \in Slots : CloudflareRound(s)
    \/ \E s \in Slots : ExtractFrom(s, SourcesOfManyPages)
    \/ \E s \in Slots : SliceAndDedup(s)
    \/ \E s \in Slots : EnrichStart(s)
    \/ \E s \in Slots : FetchDoneWith(s, {[DetailResponse EXCEPT !.statusCode = 404]})
    \/ \E s \in Slots : BatchDone(s)
    \/ \E s \in Slots : PushData(s)
    \/ \E s \in Slots : CountJobs(s)
    \/ \E s \in Slots : PaginateOn(s, ManyPages)
    \/ Finish

SpecPages == InitPages /\ [][NextPages]_vars /\ WF_vars(NextPages)

(***************************************************************************)
(* Properties.                                                             *)
(***************************************************************************)
\* the identity key of a record: its url, else title, company and location
IdentityKey(r) ==
    IF r.url # "" THEN <<"url", r.url>>
    ELSE <<"composite", r.title, r.company, r.location>>

\* C1: the records written to the sink never contain two records with the
\* same identity key (url, or title+company+location when the url is empty)
C1_NoDuplicateIdentityKey ==
    \A i, j \in 1..Len(dataset) :
        i # j => IdentityKey(dataset[i]) # IdentityKey(dataset[j])

\* C2: with maxJobs = N > 0 the number of records written to the sink, and
\* the counter totalJobsScraped, never exceed N
C2_RecordsWithinMaxJobs ==
    maxJobs > 0 => Len(dataset) <= maxJobs /\ totalJobsScraped <= maxJobs

\* C2 witness: a finished run that filled a budget of two records over two
\* pages
C2_Witness ==
    /\ mainPc = "finished"
    /\ maxJobs = 2
    /\ pagesProcessed = 2
    /\ Len(dataset) = 2
    /\ totalJobsScraped = 2

\* C3: with maxPages = N > 0 the number of pages processed never exceeds N
C3_PagesWithinMaxPages ==
    maxPages > 0 => pagesProcessed <= maxPages

\* C4: every record written to the sink has a title or a url
C4_TitleOrUrl ==
    \A i \in 1..Len(dataset) : dataset[i].title # "" \/ dataset[i].url # ""

\* the place of a strategy in the fixed order
StrategyRank(name) ==
    CASE name = "api" -> 1
      [] name = "embedded" -> 2
      [] name = "jsonld" -> 3
      [] name = "dom" -> 4

\* C5: on every page the strategies run in the fixed order intercepted
\* traffic, embedded data, JSON-LD, DOM; a strategy runs only if every
\* earlier one returned no record; and when the intercepted buffer is not
\* empty the page's records are the normalization of the intercepted items,
\* whatever the other sources hold
C5_StrategyPriority ==
    \A s \in Slots :
        Visit(s).pc = "extracted" =>
            LET v == Visit(s)
            IN /\ Len(v.ran) > 0
               /\ StrategyRank(v.ran[1].strategy) =
                     (IF pipeline = 1 /\ Len(v.capturedApiJobs) > 0 THEN 1 ELSE 2)
               /\ \A k \in 2..Len(v.ran) :
                     /\ StrategyRank(v.ran[k].strategy) =
                           StrategyRank(v.ran[k - 1].strategy) + 1
                     /\ v.ran[k - 1].count = 0
               /\ v.ran[Len(v.ran)].count = Len(v.jobs)
               /\ (pipeline = 1 /\ Len(v.capturedApiJobs) > 0) =>
                     /\ v.ran = <<Ran("api", v.capturedApiJobs)>>
                     /\ v.jobs = [i \in 1..Len(v.capturedApiJobs) |->
                                    MapRawJob(v.capturedApiJobs[i])]

\* C5 witness: intercepted items were used although the page also held
\* embedded data, JSON-LD and cards that yield other records
C5_Witness ==
    \E s \in Slots :
        /\ Visit(s).pc = "extracted"
        /\ Len(Visit(s).capturedApiJobs) > 0
        /\ Visit(s).sources.embedded # NoEmbedded
        /\ Visit(s).sources.scripts # <<>>
        /\ Visit(s).sources.dom # NoDom
        /\ extractJobsViaMonsterAPI(Visit(s).sources.embedded, FALSE) # Visit(s).jobs
        /\ extractJobsViaMonsterAPI(Visit(s).sources.embedded, FALSE) # <<>>

\* C6: with maxJobs = 0 a page that yielded records and shows an enabled
\* next-page control is followed by a request for the next page
C6_UnboundedBudgetPaginates ==
    \A s \in Slots :
        (maxJobs = 0 /\ Visit(s).outcome = "done" /\ Visit(s).hasNextPage)
            => (Visit(s).page + 1) \in addedKeys

\* C7: with httpOnly set no browser retrieval is started: the browser
\* crawler handles no page
C7_HttpOnlyStartsNoBrowser ==
    input.httpOnly => pagesProcessed = 0 /\ Running = {}

\* the record enrichment holds for position q of its input
EnrichedAt(v, q) ==
    IF q <= Len(v.enrichedJobs) THEN v.enrichedJobs[q]
    ELSE v.batchResults[q - v.batchStart]

BlockedPositions(v) == {q \in 1..Len(v.fetchKinds) : v.fetchKinds[q] = "blocked"}

\* C8: a record whose detail fetch was blocked is returned unchanged, and
\* the block counter counts each blocked record exactly once
C8_BlockedKeepsRecord ==
    \A s \in Slots :
        Visit(s).pc \in {"fetching", "pause", "push"} =>
            LET v == Visit(s)
            IN /\ v.blockedCount = Cardinality(BlockedPositions(v))
               /\ \A q \in BlockedPositions(v) : EnrichedAt(v, q) = v.uniqueJobs[q]
               /\ v.pc = "push" => \A q \in BlockedPositions(v) : v.jobsToSave[q] = v.uniqueJobs[q]

\* C8 witness: two fetches of one batch were blocked and the batch is over
C8_Witness ==
    \E s \in Slots :
        /\ Visit(s).pc = "push"
        /\ Visit(s).blockedCount = 2
        /\ Cardinality(BlockedPositions(Visit(s))) = 2
        /\ \E q \in BlockedPositions(Visit(s)) : Visit(s).uniqueJobs[q].descriptionHtml # <<>>

\* C9: whatever happens during enrichment, every record that survived
\* deduplication has been written when the visit ends (unless the sink write
\* itself failed)
C9_EnrichmentNeverDropsRecords ==
    \A s \in Slots :
        (Visit(s).pc = "idle" /\ Visit(s).outcome # "none" /\ Visit(s).failedAt # "push")
            => Visit(s).written = Visit(s).survived

\* the entries of a block that are job postings, in source order
Postings(entries) == SelectSeq(entries, LAMBDA e : e.type = "JobPosting")

\* C10: the JSON-LD extractor returns one record per JobPosting entry, in
\* source order, and none for the other entries, for every wrapper shape
C10_OneRecordPerPosting ==
    fnPc = "done" =>
        /\ Len(fnOut) = Len(Postings(fnIn.entries))
        /\ \A k \in 1..Len(fnOut) :
              /\ fnOut[k].title = Postings(fnIn.entries)[k].title
              /\ fnOut[k].url = Postings(fnIn.entries)[k].url

\* a baseSalary of the shape {value: {minValue, maxValue}, currency}
FullRange(b) ==
    /\ b.present /\ b.valueKind = "object"
    /\ ~Falsy(b.minValue) /\ ~Falsy(b.maxValue) /\ b.currency # ""

\* C11: a full range gives "<min> - <max> <currency>", an absent salary gives
\* "Not specified", and any other shape is passed through as it is or gives
\* "Not specified"
C11_SalaryNormalization ==
    fnPc = "done" =>
        LET b == fnIn.baseSalary
        IN IF FullRange(b)
           THEN fnOut = b.minValue \o " - " \o b.maxValue \o " " \o b.currency
           ELSE IF ~b.present /\ fnIn.salary = ""
           THEN fnOut = "Not specified"
           ELSE fnOut \in {"Not specified", fnIn.salary, b.scalar}

\* position i of s lies in a tag: a "<" at or before it is followed by no
\* ">" before i, and a ">" stands at or after i
InTag(s, i) ==
    /\ \E j \in 1..i : s[j] = "<" /\ \A k \in j..(i - 1) : s[k] # ">"
    /\ \E k \in i..Len(s) : s[k] = ">"

\* the characters of s that are neither in a tag nor whitespace, in order
TextOf(s) ==
    LET marked == [i \in 1..Len(s) |->
                     [c |-> s[i], keep |-> ~InTag(s, i) /\ s[i] \notin Whitespace]]
        kept == SelectSeq(marked, LAMBDA m : m.keep)
    IN [i \in 1..Len(kept) |-> kept[i].c]

\* C12: the result of stripHtml holds the text outside the tags, in order,
\* holds no tag, has single spaces as its only whitespace and none at its
\* ends; stripping it again changes nothing; the empty string gives the
\* empty string and the example gives "Hello World"
C12_StripHtml ==
    fnPc = "done" =>
        /\ TextOf(fnOut) = TextOf(fnIn)
        /\ SelectSeq(fnOut, LAMBDA c : c # " ") = TextOf(fnIn)
        /\ \A i \in 1..Len(fnOut) : ~InTag(fnOut, i) /\ fnOut[i] \notin {"\t", "\n"}
        /\ \A i \in 1..(Len(fnOut) - 1) : ~(fnOut[i] = " " /\ fnOut[i + 1] = " ")
        /\ fnOut # <<>> => fnOut[1] # " " /\ fnOut[Len(fnOut)] # " "
        /\ stripHtml(fnOut) = fnOut
        /\ fnIn = <<>> => fnOut = <<>>
        /\ fnIn = HelloWorldMarkup =>
              fnOut = <<"H", "e", "l", "l", "o", " ", "W", "o", "r", "l", "d">>

\* C12 witness: the example was stripped, to a string shorter than it
C12_Witness ==
    /\ fnPc = "done"
    /\ fnIn = HelloWorldMarkup
    /\ Len(fnOut) = 11

\* a title or a url can be derived from the candidate: a card has a title
\* element with text or with an href; a raw job has a title field or a
\* field a url is built from
Derivable ==
    IF pipeline = 1
    THEN \E i \in 1..Len(fnIn.card.titleEls) :
            LET el == fnIn.card.titleEls[i] IN el.text # "" \/ el.href.v # ""
    ELSE /\ ~fnIn.raw.isNull
         /\ \/ fnIn.raw.title # "" \/ fnIn.raw.name # ""
            \/ fnIn.raw.detailUrl # "" \/ fnIn.raw.jobId # ""

\* C13: a candidate yields no record exactly when neither a title nor a
\* url can be derived from it
C13_DroppedIffNothingDerivable ==
    fnPc = "done" => (fnOut = NoJob <=> ~Derivable)

\* the field is empty after trimming: it holds nothing but whitespace
Empty(field) == \A i \in 1..Len(field) : field[i] \in Whitespace

\* exactly one of searchUrl and searchQuery is non-empty after trimming
ExactlyOneSearch ==
    Empty(input.searchUrl) # Empty(input.searchQuery)

\* nothing of a crawl has happened: no crawler, no fetch, no record, no
\* summary
NothingStarted ==
    /\ requestQueue = <<>> /\ addedKeys = {} /\ handledRequests = 0
    /\ pagesProcessed = 0 /\ Running = {}
    /\ dataset = <<>> /\ kvStore = {}

\* C14: the input is accepted only when exactly one of searchUrl and
\* searchQuery is non-empty; otherwise the run fails before the crawler is
\* created, before any fetch and before any record or summary is written
C14_ExactlyOneSearchField ==
    /\ mainPc \in {"crawling", "finished"} => ExactlyOneSearch
    /\ ~ExactlyOneSearch => mainPc \in {"start", "failed"} /\ NothingStarted

\* C14 as the code has it: with searchUrl and searchQuery both empty after
\* trimming the run fails before the crawler is created, before any fetch
\* and before any record or summary is written; with a non-empty searchUrl
\* the input is accepted, whatever the other search fields hold
C14_SearchFieldRequired ==
    /\ (Empty(input.searchUrl) /\ Empty(input.searchQuery))
          => mainPc \in {"start", "failed"} /\ NothingStarted
    /\ ~Empty(input.searchUrl) => mainPc # "failed"

\* C14 witness: a run with only whitespace in searchUrl and searchQuery has
\* failed
C14_Witness ==
    /\ mainPc = "failed"
    /\ input.searchUrl = <<" ">>
    /\ input.searchQuery = <<" ">>

\* C15: an input with a searchQuery, no searchUrl and no location is valid:
\* the run never fails validation
C15_LocationOptional ==
    (~Empty(input.searchQuery) /\ Empty(input.searchUrl) /\ Empty(input.location))
        => mainPc # "failed"

\* the visit in slot s requests a further page in this step
RequestsNextPage(s) ==
    /\ Visit(s).pc = "paginate"
    /\ visits'[s].pc = "idle"
    /\ addedKeys' # addedKeys

\* C16: a page visit requests the next page only if the page yielded at
\* least one record, the maximum record count is not reached, the maximum
\* page count is not reached and an enabled next-page control exists
C16_NextPageOnlyIf ==
    [][\A s \in Slots :
          RequestsNextPage(s) =>
              /\ Len(Visit(s).jobs) > 0
              /\ maxJobs = 0 \/ totalJobsScraped < maxJobs
              /\ maxPages = 0 \/ pagesProcessed < maxPages
              /\ visits'[s].hasNextPage]_vars

\* b is record a, possibly enriched: enrichment touches the description and
\* the job type only
SameRecord(a, b) ==
    /\ a.title = b.title /\ a.url = b.url /\ a.company = b.company
    /\ a.location = b.location /\ a.salary = b.salary /\ a.postedDate = b.postedDate

\* u holds elements of j in the order of j
RECURSIVE InOrderOf(_, _)
InOrderOf(u, j) ==
    IF u = <<>> THEN TRUE
    ELSE IF j = <<>> THEN FALSE
    ELSE IF Head(u) = Head(j) THEN InOrderOf(Tail(u), Tail(j))
    ELSE InOrderOf(u, Tail(j))

\* C17: one page is visited at a time and its records are written at the
\* end of the sink in the order the winning extractor produced them; the
\* i-th record of the enrichment is the (possibly enriched) i-th input,
\* whatever the completion order of the detail fetches
C17_OrderPreserved ==
    /\ Cardinality(Running) <= 1
    /\ \A s \in Slots :
          LET v == Visit(s)
          IN /\ InOrderOf(v.uniqueJobs, v.jobs)
             /\ v.pc \in {"fetching", "pause"} =>
                   \A q \in 1..(Len(v.enrichedJobs) + Len(v.batchResults)) :
                       SameRecord(v.uniqueJobs[q], EnrichedAt(v, q))
             /\ v.pc \in {"push", "count"} =>
                   /\ Len(v.jobsToSave) = Len(v.uniqueJobs)
                   /\ \A q \in 1..Len(v.jobsToSave) :
                         SameRecord(v.uniqueJobs[q], v.jobsToSave[q])
             /\ v.pc = "count" =>
                   /\ Len(dataset) >= Len(v.jobsToSave)
                   /\ SubSeq(dataset, Len(dataset) - Len(v.jobsToSave) + 1,
                             Len(dataset)) = v.jobsToSave

\* C17 witness: the fetch of the second record of a batch has completed and
\* enriched it while the fetch of the first is still in flight
C17_Witness ==
    \E s \in Slots :
        /\ Visit(s).pc = "fetching"
        /\ Visit(s).inflight = {1}
        /\ Len(Visit(s).batchResults) >= 2
        /\ Visit(s).batchResults[2] # Visit(s).uniqueJobs[2]
        /\ Visit(s).uniqueJobs[1].title # Visit(s).uniqueJobs[2].title

C19_RecheckAfterLastRound ==
    \A s \in Slots : Visit(s).outcome = "blocked" => Visit(s).challenged

\* the record, page and request budgets leave room for another page
BudgetsLeft ==
    /\ maxJobs = 0 \/ totalJobsScraped < maxJobs
    /\ maxPages = 0 \/ pagesProcessed < maxPages
    /\ handledRequests < maxRequestsPerCrawl

\* C20: when the run has finished, a page whose processing raised an error
\* has not kept the next page from being requested, if the site has a
\* further page and the budgets are not exhausted
C20_ErrorKeepsNextPage ==
    \A s \in Slots :
        (/\ mainPc = "finished"
         /\ Visit(s).outcome = "error"
         /\ Visit(s).page < SitePages
         /\ BudgetsLeft)
            => (Visit(s).page + 1) \in addedKeys

\* C21: no page is abandoned in the strategy chain: a malformed source makes
\* its strategy yield nothing and never ends the visit with an error
C21_MalformedSourceNeverAbandons ==
    \A s \in Slots :
        ~(Visit(s).outcome = "error" /\ Visit(s).failedAt = "extract")

\* the values of a parsed body in the order of the guess list
Envelope(data) ==
    <<data.jobResults, data.docs, data.results, data.dataJobs,
      IF data.isArray THEN Arr(data.items) ELSE Absent>>

\* the places of the guess list that hold an array
ArrayPlaces(data) == {i \in 1..5 : Envelope(data)[i].kind = "array"}

\* C22: the interceptor captures the first value of the guess list that is
\* an array, whatever stands under the earlier keys, and captures nothing
\* only when no value is an array
C22_FirstArrayCaptured ==
    (fnPc = "done" /\ fnIn.parses /\ ~fnIn.isNull) =>
        IF ArrayPlaces(fnIn) = {} THEN fnOut = <<>>
        ELSE \E i \in ArrayPlaces(fnIn) :
                /\ \A j \in ArrayPlaces(fnIn) : i <= j
                /\ fnOut = Envelope(fnIn)[i].items

\* the visit in slot s reads the buffer of intercepted jobs in this step
ReadsBuffer(s) == Visit(s).pc = "extract" /\ visits'[s].pc # "extract"

\* C23: when a visit reads the buffer at strategy selection, every matching
\* response received before is reflected in it: none whose body holds jobs
\* is still being parsed
C23_ReceivedBeforeReadIsCaptured ==
    [][\A s \in Slots :
          (pipeline = 1 /\ ReadsBuffer(s)) =>
              \A k \in 1..Len(Visit(s).pending) :
                  InterceptedJobs(Visit(s).pending[k]) = <<>>]_vars

\* the step starts the fetches of a further batch of the visit in slot s
StartsFurtherBatch(s) ==
    /\ visits'[s].pc = "fetching"
    /\ visits'[s].batchStart > Visit(s).batchStart

\* C24: at most 10 detail fetches are in flight, all of them of the current
\* batch, and every earlier batch is complete and appended; a further batch
\* starts only out of the pause, 10 positions on; no pause follows the
\* last batch
C24_FixedSizeBatches ==
    /\ [](\A s \in Slots :
            LET v == Visit(s)
            IN /\ Cardinality(v.inflight) <= 10
               /\ v.pc = "fetching" =>
                     /\ v.inflight \subseteq (v.batchStart + 1)..(v.batchStart + 10)
                     /\ Len(v.enrichedJobs) = v.batchStart
               /\ v.pc = "pause" =>
                     /\ v.inflight = {}
                     /\ Len(v.enrichedJobs) = v.batchStart + 10
                     /\ Len(v.enrichedJobs) < Len(v.uniqueJobs)
               /\ (v.pc = "push" /\ Len(v.uniqueJobs) > 0) =>
                     Len(v.enrichedJobs) = Len(v.uniqueJobs))
    /\ [][\A s \in Slots :
            StartsFurtherBatch(s) =>
                /\ Visit(s).pc = "pause"
                /\ visits'[s].batchStart = Visit(s).batchStart + 10]_vars

\* C24 witness: the second batch is in flight after a full first batch
C24_Witness ==
    \E s \in Slots :
        /\ Visit(s).pc = "fetching"
        /\ Visit(s).batchStart = 10
        /\ Visit(s).inflight = {11}
        /\ Len(Visit(s).enrichedJobs) = 10

\* C25: the mapper leaves title, company, location, salary, postedDate, url
\* and scrapedAt alone; a successful fetch sets the two description fields
\* and sets jobType only when the detail page supplies one; a record
\* without url or with an absent fetch result is returned unchanged
C25_EnrichmentFrame ==
    fnPc = "done" =>
        LET job == fnIn.job
            fullDesc == fetchFullDescription(fnIn.response)
        IN /\ fnOut.title = job.title /\ fnOut.company = job.company
           /\ fnOut.location = job.location /\ fnOut.salary = job.salary
           /\ fnOut.postedDate = job.postedDate /\ fnOut.url = job.url
           /\ fnOut.scrapedAt = job.scrapedAt
           /\ (job.url # "" /\ fullDesc.kind = "result") =>
                 /\ fnOut.descriptionHtml = fullDesc.descriptionHtml
                 /\ fnOut.descriptionText = fullDesc.descriptionText
                 /\ fnOut.jobType = IF fnIn.response.jobType # ""
                                    THEN fnIn.response.jobType ELSE job.jobType
           /\ (job.url = "" \/ fullDesc.kind = "null") => fnOut = job

\* C25 witness: a record with a job type was enriched from a detail page
\* that supplies a description and no job type
C25_Witness ==
    /\ fnPc = "done"
    /\ fnIn.job.url # ""
    /\ fnIn.response.jobType = ""
    /\ fnOut.descriptionHtml # fnIn.job.descriptionHtml
    /\ fnOut.jobType = "Contract"

\* C26: the descriptionText of every record in the sink is its
\* descriptionHtml with the tags stripped and the whitespace collapsed
C26_TextDerivedFromHtml ==
    \A i \in 1..Len(dataset) :
        dataset[i].descriptionText = stripHtml(dataset[i].descriptionHtml)

UnseenKeys(jobs) ==
    {k \in {IF pipeline = 1 THEN jobs[i].url ELSE DedupKey2(jobs[i]) : i \in 1..Len(jobs)} :
        k # "" /\ k \notin seenJobUrls}

\* C28: when maxJobs > 0, the remaining budget r = maxJobs - totalJobsScraped
\* is positive and the page's extracted list holds at least r records with
\* keys that are not yet seen, the budget and duplicate filter leaves
\* exactly r records of the page to be written
C28_DuplicatesConsumeNoBudget ==
    [][\A s \in Slots :
          (/\ Visit(s).pc = "extracted"
           /\ visits'[s].pc # "extracted"
           /\ maxJobs > 0
           /\ maxJobs - totalJobsScraped > 0
           /\ Cardinality(UnseenKeys(Visit(s).jobs)) >= maxJobs - totalJobsScraped)
          => Len(visits'[s].jobsToSave) = maxJobs - totalJobsScraped]_vars

\* C29: when the run has finished, every key in seenJobUrls is the key of a
\* record of the dataset
C29_SeenOnlyWhatWasWritten ==
    mainPc = "finished" =>
        \A u \in seenJobUrls :
            \E i \in 1..Len(dataset) :
                u = IF pipeline = 1 THEN dataset[i].url ELSE DedupKey2(dataset[i])

\* the handler is between reading the remaining budget and counting the
\* records it wrote
InBudgetSection(s) ==
    Visit(s).pc \in {"extracted", "enrich", "fetching", "pause", "push", "count"}

\* C30: at most one page visit is between reading the budget and counting;
\* a request is added only for the page after the one whose visit ends in
\* that step, after its records were counted, and for a page not requested
\* before; the k-th visit started is the visit of page k
C30_VisitsInSequence ==
    /\ [](Cardinality({s \in Slots : InBudgetSection(s)}) <= 1)
    /\ [][mainPc = "crawling"
             /\ (addedKeys' # addedKeys \/ Len(requestQueue') > Len(requestQueue)) =>
             \E s \in Slots :
                /\ Visit(s).pc = "paginate"
                /\ visits'[s].pc = "idle"
                /\ Visit(s).page + 1 \notin addedKeys
                /\ requestQueue' = Append(requestQueue, Visit(s).page + 1)]_vars
    /\ [][\A s \in Slots :
             Visit(s).pc = "idle" /\ visits'[s].pc # "idle" =>
                /\ visits'[s].page = pagesProcessed'
                /\ pagesProcessed' = pagesProcessed + 1]_vars

\* C30 witness: the second visit, of page 2, is about to count the records
\* it wrote, after page 1's records were counted
C30_Witness ==
    /\ pagesProcessed = 2
    /\ totalJobsScraped > 0
    /\ \E s \in Slots : Visit(s).pc = "count" /\ Visit(s).page = 2 /\ Visit(s).written > 0

====
